---- MODULE Spec2Model ----
(***************************************************************************)
(* Model of the visual control board (mattsta/actionboard):                *)
(*   - LiveUpdateManager (live_updates.py): the list of active WebSocket   *)
(*     connections, connect / disconnect, and broadcast_json with its      *)
(*     gather-then-prune handling of failed sends;                         *)
(*   - ActionRegistry (actions/registry.py): load_actions / get_action.    *)
(* Spec is the live-update manager driven through its public methods with *)
(* one broadcast_json call in flight at a time; LiveSpec is Spec with the  *)
(* event loop's fairness; RegSpec is the action registry.                  *)
(***************************************************************************)
EXTENDS Integers, Sequences, FiniteSets, Bags, TLC

\* ------------------------------------------------------------------------
\* Bounds
\* ------------------------------------------------------------------------
MaxConn == 3
MaxLiveConn == 2
MaxDefs == 2
MaxLoads == 2
MaxPages == 2
MaxButtons == 3

\* The WebSocket objects (compared by identity) and the broadcast_json calls.
Channels == {"c1", "c2", "c3"}
Broadcasts == {"b1"}

\* Channels whose sends may stay pending for ever (a slow or stuck peer):
\* the event loop gives no guarantee that a send to them completes.
SlowChannels == {"c3"}

\* The channels of the scenarios that keep the list to MaxLiveConn entries:
\* one healthy channel and the stuck one.
LiveChannels == {"c1", "c3"}

\* ------------------------------------------------------------------------
\* The environment of the action registry: which modules import, and what
\* getattr(module, function) yields.
\* ------------------------------------------------------------------------
None == "None"
ActionIds == {"a", "b"}
ModuleNames == {"m", "no_such_module"}
\* f_sync is a plain function, f_async a coroutine function (async def),
\* f_awaitable a callable that is no coroutine function and returns an
\* awaitable (an object with an async __call__, a plain wrapper around a
\* coroutine function)
FunctionNames == {"f_sync", "f_async", "f_awaitable", "not_callable", "missing_fn"}

\* ActionDefinition (config/models.py): id, module, function
ActionDefinition == [id : ActionIds, module : ModuleNames, function : FunctionNames]
NoDefinition == [id |-> None, module |-> None, function |-> None]

VARIABLES
    active_connections, \* LiveUpdateManager.active_connections (a Python list)
    pc,                 \* per broadcast_json call: "idle", "sending" (in gather), "done"
    tasks,              \* per call: the channels of the send coroutines, in list order
    results,            \* per call: gather's result per task: "pending", "ok", "exc"
    raised,             \* per call: TRUE when broadcast_json ended by raising
    accepting,          \* channels whose connect() is suspended in accept()
    accepted,           \* channels whose accept() has returned
    actions,            \* ActionRegistry._actions
    action_definitions, \* ActionRegistry._action_definitions
    last_config,        \* the argument of the latest load_actions call
    loads,              \* number of load_actions calls on this registry
    load_raised,        \* TRUE when the latest load_actions call ended by raising
    get_ret,            \* the latest get_action call: <<id, returned value>>
    exec_pc,            \* per execute_action call: "idle", "awaiting", "returned", "raised"
    exec_id,            \* per call: its action_id argument
    exec_func,          \* per call: action_func, what get_action returned
    invoked,            \* per call: how many times action_func was called
    action_out,         \* per call: what the action did (returned a value, raised)
    exec_ret,           \* per call: what execute_action returned
    app_pc,             \* the application: "init", "running", "failed" (startup raised)
    app_attrs,          \* the names of the attributes that exist on app.state
    ui_config,          \* app.state.ui_config
    actions_config,     \* app.state.actions_config
    current_ui_config,          \* app.state.current_ui_config
    current_actions_config,     \* app.state.current_actions_config
    staged_ui_config,           \* app.state.staged_ui_config
    staged_actions_config,      \* app.state.staged_actions_config
    pending_update_available,   \* app.state.pending_update_available
    action_registry,    \* app.state.action_registry: the tables of that registry
    response,           \* the outcome of the latest request handler
    message,            \* per broadcast_json call: its data argument
    update_data,        \* per call: the argument of broadcast_button_update
    push_request,       \* per call: the body of the update_content request
    board,              \* a UIConfig: its pages, in list order
    find_ret,           \* the latest find_page / find_button_and_page call
    files,              \* the file system: what each configuration path holds
    loader,             \* a ConfigLoader: its arguments, the paths it tried, its results
    applied,            \* per broadcast_json call: the configurations published by
                        \* the apply_staged_configuration call that awaits it
    nav_served,         \* what the latest navigation panel request was served
    press_ret,          \* per handle_button_action call: its response
    ended,              \* the channels whose WebSocket endpoint handler has ended
    button_request      \* per button action request: its position and the values
                        \* its dependencies returned

live_vars == <<active_connections, pc, tasks, results, raised, accepting, accepted>>
reg_vars == <<actions, action_definitions, last_config, loads, load_raised, get_ret>>
vars == <<active_connections, pc, tasks, results, raised, accepting, accepted,
          actions, action_definitions, last_config, loads, load_raised, get_ret,
          exec_pc, exec_id, exec_func, invoked, action_out, exec_ret,
          app_pc, app_attrs, ui_config, actions_config, current_ui_config,
          current_actions_config, staged_ui_config, staged_actions_config,
          pending_update_available, action_registry, response,
          message, update_data, push_request,
          board, find_ret, files, loader, applied, nav_served, press_ret,
          ended, button_request>>
push_vars == <<message, update_data, push_request>>
app_vars == <<app_pc, app_attrs, ui_config, actions_config, current_ui_config,
              current_actions_config, staged_ui_config, staged_actions_config,
              pending_update_available, action_registry, response>>
exec_vars == <<exec_pc, exec_id, exec_func, invoked, action_out, exec_ret>>
find_vars == <<board, find_ret>>
loader_vars == <<files, loader>>
nav_vars == <<applied, nav_served>>
button_vars == <<press_ret>>
endpoint_vars == <<ended>>
request_vars == <<button_request>>

\* what an action of one component leaves alone
non_live_vars ==
    <<reg_vars, exec_vars, app_vars, push_vars, find_vars, loader_vars, nav_vars, button_vars,
      endpoint_vars, request_vars>>
non_request_vars ==
    <<live_vars, reg_vars, exec_vars, app_vars, push_vars, find_vars, loader_vars, nav_vars,
      button_vars, endpoint_vars>>
non_reg_vars ==
    <<live_vars, exec_vars, app_vars, push_vars, find_vars, loader_vars, nav_vars, button_vars,
      endpoint_vars, request_vars>>
non_exec_vars ==
    <<live_vars, app_vars, push_vars, find_vars, loader_vars, nav_vars, button_vars,
      endpoint_vars, request_vars>>
non_app_vars ==
    <<reg_vars, exec_vars, push_vars, find_vars, loader_vars, nav_vars, button_vars,
      endpoint_vars, request_vars>>
non_push_vars ==
    <<reg_vars, exec_vars, app_vars, find_vars, loader_vars, nav_vars, button_vars,
      endpoint_vars, request_vars>>
non_find_vars ==
    <<live_vars, reg_vars, exec_vars, app_vars, push_vars, loader_vars, nav_vars, button_vars,
      endpoint_vars, request_vars>>
non_app_live_vars ==
    <<reg_vars, exec_vars, find_vars, loader_vars, button_vars, endpoint_vars, request_vars>>
non_loader_vars ==
    <<live_vars, reg_vars, exec_vars, app_vars, push_vars, find_vars, nav_vars, button_vars,
      endpoint_vars, request_vars>>

\* ------------------------------------------------------------------------
\* Python list helpers
\* ------------------------------------------------------------------------
\* x in lst
Contains(lst, x) == \E i \in DOMAIN lst : lst[i] = x

\* lst.remove(x) for a list that holds x: drops the first occurrence only
RECURSIVE RemoveFirst(_, _)
RemoveFirst(lst, x) ==
    IF lst = <<>> THEN <<>>
    ELSE IF Head(lst) = x THEN Tail(lst)
    ELSE <<Head(lst)>> \o RemoveFirst(Tail(lst), x)

\* lst[idx] with a 0-based Python index: negative indexes count from the end,
\* anything outside -len..len-1 is an IndexError
PyIndexOK(lst, idx) == idx < Len(lst) /\ idx >= 0 - Len(lst)
PyIndex(lst, idx) == IF idx >= 0 THEN lst[idx + 1] ELSE lst[Len(lst) + idx + 1]

NoDup(lst) == \A i, j \in DOMAIN lst : lst[i] = lst[j] => i = j

\* the bag of the entries of lst: each entry with the number of its
\* occurrences
SeqToBag(lst) ==
    [x \in {lst[i] : i \in DOMAIN lst} |->
        Cardinality({i \in DOMAIN lst : lst[i] = x})]

\* ------------------------------------------------------------------------
\* LiveUpdateManager
\* ------------------------------------------------------------------------
\* connect(), after accept() returned: self.active_connections.append(websocket)
connect_append(conns, ws) == Append(conns, ws)

\* a disconnect that drops every entry of the channel
disconnect_all_entries(conns, ws) == SelectSeq(conns, LAMBDA x : x # ws)

\* disconnect(): remove the channel if it is in the list, else only log
disconnect(conns, ws) ==
    IF Contains(conns, ws) THEN RemoveFirst(conns, ws) ELSE conns

\* a gather that stops waiting at the first exception
gather_fail_fast(res) ==
    \/ \E i \in DOMAIN res : res[i] = "exc"
    \/ \A i \in DOMAIN res : res[i] # "pending"

\* asyncio.gather(*tasks, return_exceptions=True) returns once every task
\* has finished, whether with a value or with an exception
gather_done(res) == \A i \in DOMAIN res : res[i] # "pending"

\* a loop that awaits the sends one after the other
send_in_turn(res, i) == res[i] = "pending" /\ \A j \in 1..(i - 1) : res[j] # "pending"

\* gather runs all send coroutines concurrently: each pending send can
\* complete whatever the state of the others
send_runnable(res, i) == res[i] = "pending"

\* The loop over gather's results (lines 63-68), from 0-based position i on,
\* with the dead connections collected so far.  err is TRUE when the list
\* index raises IndexError.
RECURSIVE collect_dead(_, _, _, _)
collect_dead(res, conns, i, dead) ==
    IF i >= Len(res) THEN [dead |-> dead, err |-> FALSE]
    ELSE IF res[i + 1] # "exc" THEN collect_dead(res, conns, i + 1, dead)
    ELSE LET idx == i - Len(dead) IN
         IF ~PyIndexOK(conns, idx) THEN [dead |-> dead, err |-> TRUE]
         ELSE LET connection == PyIndex(conns, idx) IN
              collect_dead(res, conns, i + 1,
                           IF Contains(dead, connection) THEN dead
                           ELSE Append(dead, connection))

\* for dead_connection in dead_connections: self.disconnect(dead_connection)
RECURSIVE remove_dead(_, _)
remove_dead(conns, dead) ==
    IF dead = <<>> THEN conns
    ELSE remove_dead(disconnect(conns, Head(dead)), Tail(dead))

\* number of sends of call b that delivered the payload to channel c
Delivered(b, c) ==
    Cardinality({i \in DOMAIN tasks[b] : tasks[b][i] = c /\ results[b][i] = "ok"})

LiveInit ==
    /\ active_connections = <<>>
    /\ pc = [b \in Broadcasts |-> "idle"]
    /\ tasks = [b \in Broadcasts |-> <<>>]
    /\ results = [b \in Broadcasts |-> <<>>]
    /\ raised = [b \in Broadcasts |-> FALSE]
    /\ accepting = {}
    /\ accepted = {}

\* a connect that puts the channel on the list before the handshake
connect_append_early(conns, ws) == Append(conns, ws)

\* the list while connect() waits in `await websocket.accept()` (line 20):
\* nothing has been appended yet
connect_before_accept(conns, ws) == conns

\* connect(websocket) up to its suspension in accept() (lines 16-20)
ConnectBegin(c) ==
    /\ c \notin accepting
    /\ accepting' = accepting \cup {c}
    /\ active_connections' = connect_before_accept(active_connections, c)
    /\ UNCHANGED <<pc, tasks, results, raised, accepted>>

\* accept() returns and connect() runs to its end (lines 20-23)
AcceptReturns(c, limit) ==
    /\ c \in accepting
    /\ Len(active_connections) < limit
    /\ accepting' = accepting \ {c}
    /\ accepted' = accepted \cup {c}
    /\ active_connections' = connect_append(active_connections, c)
    /\ UNCHANGED <<pc, tasks, results, raised>>

\* accept() raises: the exception leaves connect() before the append
AcceptRaises(c) ==
    /\ c \in accepting
    /\ accepting' = accepting \ {c}
    /\ UNCHANGED <<active_connections, pc, tasks, results, raised, accepted>>

\* disconnect(websocket), from any caller
Disconnect(c) ==
    /\ active_connections' = disconnect(active_connections, c)
    /\ UNCHANGED <<pc, tasks, results, raised, accepting, accepted>>

\* broadcast_json up to its suspension in gather (lines 41-62).  Calling
\* the coroutine function send_json only creates the coroutine, so the
\* except branch of the first loop is not taken.
BroadcastStart(b) ==
    /\ pc[b] \in {"idle", "done"}
    /\ raised' = [raised EXCEPT ![b] = FALSE]
    /\ IF active_connections = <<>>
       THEN /\ pc' = [pc EXCEPT ![b] = "done"]
            /\ tasks' = [tasks EXCEPT ![b] = <<>>]
            /\ results' = [results EXCEPT ![b] = <<>>]
       ELSE /\ pc' = [pc EXCEPT ![b] = "sending"]
            /\ tasks' = [tasks EXCEPT ![b] = active_connections]
            /\ results' = [results EXCEPT ![b] =
                              [i \in DOMAIN active_connections |-> "pending"]]
    /\ UNCHANGED <<active_connections, accepting, accepted>>

\* one send_json coroutine of call b finishes: the payload is delivered
BroadcastSendOk(b, i) ==
    /\ pc[b] = "sending"
    /\ i \in DOMAIN tasks[b]
    /\ send_runnable(results[b], i)
    /\ results' = [results EXCEPT ![b][i] = "ok"]
    /\ UNCHANGED <<active_connections, pc, tasks, raised, accepting, accepted>>

\* one send_json coroutine of call b raises (the channel is closed)
BroadcastSendFail(b, i) ==
    /\ pc[b] = "sending"
    /\ i \in DOMAIN tasks[b]
    /\ send_runnable(results[b], i)
    /\ results' = [results EXCEPT ![b][i] = "exc"]
    /\ UNCHANGED <<active_connections, pc, tasks, raised, accepting, accepted>>

\* gather returns and broadcast_json runs to its end (lines 63-77)
BroadcastFinish(b) ==
    /\ pc[b] = "sending"
    /\ gather_done(results[b])
    /\ LET r == collect_dead(results[b], active_connections, 0, <<>>) IN
       /\ raised' = [raised EXCEPT ![b] = r.err]
       /\ active_connections' =
              IF r.err THEN active_connections
              ELSE remove_dead(active_connections, r.dead)
    /\ pc' = [pc EXCEPT ![b] = "done"]
    /\ UNCHANGED <<tasks, results, accepting, accepted>>

\* ------------------------------------------------------------------------
\* websocket_button_updates_endpoint (web/routes.py): one handler per channel
\* ------------------------------------------------------------------------
\* what ends the receive loop: the client disconnects, receive_text raises
\* another exception, or the handler's task is cancelled
EndReasons == {"WebSocketDisconnect", "Exception", "CancelledError"}

\* a handler that disconnects in its `except WebSocketDisconnect` branch
cleanup_on_disconnect_only(conns, ws, reason) ==
    IF reason = "WebSocketDisconnect" THEN disconnect(conns, ws) ELSE conns

\* the finally clause (routes.py lines 192-193):
\* live_update_mgr.disconnect(websocket), whatever ended the loop
handler_cleanup(conns, ws, reason) == disconnect(conns, ws)

EndpointInit == ended = {}

\* the handler of a new channel starts and waits in connect() for accept()
\* (routes.py lines 173-175)
EndpointConnects(c) ==
    /\ c \notin accepted \cup ended
    /\ ConnectBegin(c)
    /\ UNCHANGED ended

\* accept() returns: connect() appends the channel and the handler enters
\* its receive loop (lines 176-180)
EndpointAccepted(c, limit) ==
    /\ AcceptReturns(c, limit)
    /\ UNCHANGED ended

\* accept() raises: the exception leaves connect() and the handler, which
\* has not entered its try block
EndpointAcceptFails(c) ==
    /\ AcceptRaises(c)
    /\ ended' = ended \cup {c}

\* the receive loop of a connected channel ends and the handler with it
\* (lines 186-193)
EndpointEnds(c, reason) ==
    /\ c \in accepted \ ended
    /\ active_connections' = handler_cleanup(active_connections, c, reason)
    /\ ended' = ended \cup {c}
    /\ UNCHANGED <<pc, tasks, results, raised, accepting, accepted>>

\* ------------------------------------------------------------------------
\* ActionRegistry
\* ------------------------------------------------------------------------
\* importlib.import_module(module) returns (no ImportError)
ImportOK(module) == module = "m"
\* getattr(module, function) returns (no AttributeError)
HasAttr(module, function) == function # "missing_fn"
\* callable(func)
IsCallable(module, function) == function \in {"f_sync", "f_async", "f_awaitable"}

\* the exception the try block raises for definition d (lines 38-39), or
\* "none"
try_raises(d) ==
    IF ~ImportOK(d.module) THEN "ImportError"
    ELSE IF ~HasAttr(d.module, d.function) THEN "AttributeError"
    ELSE "none"

\* the exception classes of the model; all of them derive from Exception
ExceptionClasses == {"ImportError", "AttributeError", "ValueError", "RuntimeError"}

\* a handler list with the first except clause only
load_catches_import_only(exc) == exc = "ImportError"

\* the except clauses of the loop body (lines 47-52): ImportError,
\* AttributeError, then Exception
load_catches(exc) ==
    \/ exc = "ImportError"
    \/ exc = "AttributeError"
    \/ exc \in ExceptionClasses

\* the definition reaches `self._actions[action_def.id] = func` (lines 38-42)
Resolves(d) ==
    /\ ImportOK(d.module)
    /\ HasAttr(d.module, d.function)
    /\ IsCallable(d.module, d.function)

\* The ActionsConfig arguments of load_actions: None, or a configuration
\* with a list of at most MaxDefs definitions.
RECURSIVE DefLists(_)
DefLists(n) ==
    IF n = 0 THEN {<<>>}
    ELSE LET shorter == DefLists(n - 1) IN
         shorter \cup {Append(l, d) : l \in {x \in shorter : Len(x) = n - 1},
                                      d \in ActionDefinition}
NoConfig == [given |-> FALSE, actions |-> <<>>]
Configs == {NoConfig} \cup {[given |-> TRUE, actions |-> l] : l \in DefLists(MaxDefs)}

\* a registration that keeps the entry an id already has (dict.setdefault)
registered_if_absent(reg, d) ==
    IF reg.actions[d.id] # None THEN reg
    ELSE [actions |-> [reg.actions EXCEPT ![d.id] = d.function],
          action_definitions |-> [reg.action_definitions EXCEPT ![d.id] = d],
          raised |-> reg.raised]

\* `self._actions[action_def.id] = func` and
\* `self._action_definitions[action_def.id] = action_def` (lines 42-43):
\* both tables are assigned under the id, whatever they held for it
registered(reg, d) ==
    [actions |-> [reg.actions EXCEPT ![d.id] = d.function],
     action_definitions |-> [reg.action_definitions EXCEPT ![d.id] = d],
     raised |-> reg.raised]

\* the for loop of load_actions (lines 35-52) over the definitions defs,
\* starting from the tables reg.  An exception of the try block that no
\* except clause catches leaves the loop and load_actions (raised).
RECURSIVE load_loop(_, _)
load_loop(reg, defs) ==
    IF defs = <<>> THEN reg
    ELSE LET d == Head(defs)
             exc == try_raises(d) IN
         IF exc # "none"
         THEN IF load_catches(exc) THEN load_loop(reg, Tail(defs))
              ELSE [reg EXCEPT !.raised = TRUE]
         ELSE IF IsCallable(d.module, d.function)
         THEN load_loop(registered(reg, d), Tail(defs))
         ELSE load_loop(reg, Tail(defs))

\* ActionRegistry() (lines 15-18): both tables empty
EmptyRegistry ==
    [actions |-> [id \in ActionIds |-> None],
     action_definitions |-> [id \in ActionIds |-> NoDefinition],
     raised |-> FALSE]

\* load_actions (lines 30-53): returns at once for None or an empty list,
\* else runs the loop on the tables as they are
load_actions(reg, cfg) ==
    IF ~cfg.given \/ cfg.actions = <<>> THEN reg
    ELSE load_loop(reg, cfg.actions)

\* get_action (lines 66-69): self._actions.get(action_id)
get_action(acts, action_id) == acts[action_id]

\* a lookup that takes the entry out of the table (dict.pop)
lookup_pops(acts, action_id) == [acts EXCEPT ![action_id] = None]

\* the table after self._actions.get(action_id) (line 66): dict.get leaves
\* the dict as it is
lookup_leaves(acts, action_id) == acts

RegInit ==
    /\ actions = EmptyRegistry.actions
    /\ action_definitions = EmptyRegistry.action_definitions
    /\ last_config = NoConfig
    /\ loads = 0
    /\ load_raised = FALSE
    /\ get_ret = [id |-> None, value |-> None]

\* registry.load_actions(cfg)
LoadActions(cfg) ==
    /\ loads < MaxLoads
    /\ LET reg == load_actions([actions |-> actions,
                                action_definitions |-> action_definitions,
                                raised |-> FALSE], cfg) IN
       /\ actions' = reg.actions
       /\ action_definitions' = reg.action_definitions
       /\ load_raised' = reg.raised
    /\ last_config' = cfg
    /\ loads' = loads + 1
    /\ UNCHANGED get_ret

\* registry.get_action(action_id)
GetAction(action_id) ==
    /\ get_ret' = [id |-> action_id, value |-> get_action(actions, action_id)]
    /\ actions' = lookup_leaves(actions, action_id)
    /\ UNCHANGED <<action_definitions, last_config, loads, load_raised>>

\* ------------------------------------------------------------------------
\* ActionRegistry.execute_action
\* ------------------------------------------------------------------------
\* the execute_action calls that may be in flight together
Execs == {"e1", "e2"}

\* the params argument: None, or a dict of keyword arguments
Params == {None, "kwargs"}

\* dicts the actions return (built_in_actions.py: status and message)
ActionValues ==
    {[status |-> "success", message |-> "v1"],
     [status |-> "success", message |-> "v2"]}

\* exceptions the actions raise, with the text str(e) gives
ActionExceptions ==
    {[cls |-> "ValueError", msg |-> "bad value"],
     [cls |-> "RuntimeError", msg |-> "boom"]}
str_exc(e) == e.msg

\* a coroutine object that nobody has awaited
Coroutine == [coroutine |-> "pending"]
NoResult == [status |-> "none"]
NoOutcome == [kind |-> "none", value |-> NoResult]

\* what calling (and, for a coroutine function, awaiting) the callable
\* can do
Outcomes(func) ==
    IF func = "f_awaitable"
    THEN {[kind |-> "returned", value |-> Coroutine]}
    ELSE {[kind |-> "returned", value |-> v] : v \in ActionValues}
         \cup {[kind |-> "raised", value |-> x] : x \in ActionExceptions}

\* inspect.iscoroutinefunction(action_func) (line 98)
iscoroutinefunction(func) == func = "f_async"

\* `if not action_func` (line 87)
not_found(action_func) == action_func = None

\* `if params is None: params = {}` (lines 92-93)
default_params(params) == IF params = None THEN "empty" ELSE params

\* a miss answered with None
not_found_none(action_id) == NoResult

\* the dict returned for an unknown id (lines 88-90); the f-string is the
\* sequence of its parts
not_found_result(action_id) ==
    LET error_msg == <<"Action", action_id, "not found in registry. Cannot execute.">> IN
    [status |-> "error", error |-> error_msg, message |-> error_msg]

\* the dict returned from the except branch (lines 111-113)
exec_error_result(action_id, e) ==
    LET error_msg == <<"Error during execution of action", action_id, str_exc(e)>> IN
    [status |-> "error", error |-> error_msg, message |-> error_msg]

\* a handler for ValueError only
exec_catches_value_error(e) == e.cls = "ValueError"

\* `except Exception as e` (line 110)
exec_catches(e) == e.cls \in ExceptionClasses

\* a call statement that runs the callable a second time
invoke_twice(count) == count + 2

\* `action_func(**params)` (lines 101 and 105): one call of the callable
invoke(count) == count + 1

\* the end of the try block for the outcome out of the action: `return
\* result` (line 109), or the except branch (lines 110-113)
finish(action_id, out) ==
    IF out.kind = "returned" THEN out.value
    ELSE exec_error_result(action_id, out.value)

ExecInit ==
    /\ exec_pc = [e \in Execs |-> "idle"]
    /\ exec_id = [e \in Execs |-> None]
    /\ exec_func = [e \in Execs |-> None]
    /\ invoked = [e \in Execs |-> 0]
    /\ action_out = [e \in Execs |-> NoOutcome]
    /\ exec_ret = [e \in Execs |-> NoResult]

\* the action finished with out: execute_action returns, or the exception
\* leaves it when the except clause does not catch it
Finished(e, action_id, out) ==
    /\ action_out' = [action_out EXCEPT ![e] = out]
    /\ IF out.kind = "raised" /\ ~exec_catches(out.value)
       THEN /\ exec_pc' = [exec_pc EXCEPT ![e] = "raised"]
            /\ exec_ret' = [exec_ret EXCEPT ![e] = NoResult]
       ELSE /\ exec_pc' = [exec_pc EXCEPT ![e] = "returned"]
            /\ exec_ret' = [exec_ret EXCEPT ![e] = finish(action_id, out)]

\* execute_action(action_id, params) for an id get_action does not find
\* (lines 86-90)
ExecuteNotFound(e, action_id, params) ==
    /\ exec_pc[e] # "awaiting"
    /\ not_found(get_action(actions, action_id))
    /\ actions' = lookup_leaves(actions, action_id)
    /\ exec_pc' = [exec_pc EXCEPT ![e] = "returned"]
    /\ exec_id' = [exec_id EXCEPT ![e] = action_id]
    /\ exec_func' = [exec_func EXCEPT ![e] = None]
    /\ invoked' = [invoked EXCEPT ![e] = 0]
    /\ action_out' = [action_out EXCEPT ![e] = NoOutcome]
    /\ exec_ret' = [exec_ret EXCEPT ![e] = not_found_result(action_id)]
    /\ UNCHANGED <<action_definitions, last_config, loads, load_raised, get_ret>>

\* execute_action on a callable that is no coroutine function (lines
\* 86-113 through the else branch): the call runs to its end in one step
ExecuteSync(e, action_id, params, out) ==
    /\ exec_pc[e] # "awaiting"
    /\ LET action_func == get_action(actions, action_id) IN
       /\ ~not_found(action_func)
       /\ ~iscoroutinefunction(action_func)
       /\ default_params(params) \in {"empty", "kwargs"}
       /\ out \in Outcomes(action_func)
       /\ exec_func' = [exec_func EXCEPT ![e] = action_func]
    /\ actions' = lookup_leaves(actions, action_id)
    /\ exec_id' = [exec_id EXCEPT ![e] = action_id]
    /\ invoked' = [invoked EXCEPT ![e] = invoke(0)]
    /\ Finished(e, action_id, out)
    /\ UNCHANGED <<action_definitions, last_config, loads, load_raised, get_ret>>

\* execute_action on a coroutine function, up to its suspension in
\* `await action_func(**params)` (lines 86-101)
ExecuteAsyncStart(e, action_id, params) ==
    /\ exec_pc[e] # "awaiting"
    /\ LET action_func == get_action(actions, action_id) IN
       /\ ~not_found(action_func)
       /\ iscoroutinefunction(action_func)
       /\ default_params(params) \in {"empty", "kwargs"}
       /\ exec_func' = [exec_func EXCEPT ![e] = action_func]
    /\ actions' = lookup_leaves(actions, action_id)
    /\ exec_pc' = [exec_pc EXCEPT ![e] = "awaiting"]
    /\ exec_id' = [exec_id EXCEPT ![e] = action_id]
    /\ invoked' = [invoked EXCEPT ![e] = invoke(0)]
    /\ action_out' = [action_out EXCEPT ![e] = NoOutcome]
    /\ exec_ret' = [exec_ret EXCEPT ![e] = NoResult]
    /\ UNCHANGED <<action_definitions, last_config, loads, load_raised, get_ret>>

\* the awaited coroutine finishes and execute_action runs to its end
\* (lines 101-113)
ExecuteAsyncDone(e, out) ==
    /\ exec_pc[e] = "awaiting"
    /\ out \in Outcomes(exec_func[e])
    /\ Finished(e, exec_id[e], out)
    /\ UNCHANGED <<exec_id, exec_func, invoked>>
    /\ UNCHANGED reg_vars

\* ------------------------------------------------------------------------
\* Button content updates: the update_content route and
\* broadcast_button_update
\* ------------------------------------------------------------------------
ButtonIds == {"btn1"}

\* a field the request body does not have
Absent == "Absent"

\* the content fields a request body can carry, and the fields of the
\* ButtonContentUpdate model (models.py lines 177-186)
ContentFields == {"text", "icon_class", "style_class", "sparkline"}
ModelFields == {"button_id", "text", "icon_class", "style_class"}

\* the JSON bodies posted to update_content
Requests ==
    [button_id : ButtonIds,
     text : {Absent, "", "t1"},
     icon_class : {Absent, "i1"},
     style_class : {Absent, "s1"},
     sparkline : {Absent, "spark1"}]
NoRequest ==
    [button_id |-> None, text |-> Absent, icon_class |-> Absent,
     style_class |-> Absent, sparkline |-> Absent]

\* ButtonContentUpdate built from the body: a model field the body lacks
\* gets its default None, a key that is no model field is ignored
validate(req) == [f \in ModelFields |-> IF req[f] = Absent THEN None ELSE req[f]]

\* update_data.model_dump(exclude_none=True) (routes.py line 153)
model_dump_exclude_none(m) == [f \in {g \in ModelFields : m[g] # None} |-> m[f]]

\* dicts given to broadcast_button_update
Payloads ==
    {[button_id |-> "btn1"],
     [button_id |-> "btn1", text |-> "t1"],
     [button_id |-> "btn1", text |-> "", icon_class |-> "i1"]}
NoPayload == [button_id |-> None]
NoMessage == [type |-> None, payload |-> NoPayload]

\* a wrapper that tags the payload with another type
button_update_message_retyped(data) == [type |-> "button_update", payload |-> data]

\* message_to_broadcast (live_updates.py lines 85-88)
button_update_message(data) == [type |-> "button_content_update", payload |-> data]

PushInit ==
    /\ message = [b \in Broadcasts |-> NoMessage]
    /\ update_data = [b \in Broadcasts |-> NoPayload]
    /\ push_request = [b \in Broadcasts |-> NoRequest]

\* broadcast_json(data) up to its suspension in gather
BroadcastJson(b, data) ==
    /\ BroadcastStart(b)
    /\ message' = [message EXCEPT ![b] = data]

\* broadcast_button_update(data) (lines 79-89) up to the suspension of
\* the broadcast_json call it awaits
BroadcastButtonUpdate(b, data) ==
    /\ BroadcastJson(b, button_update_message(data))
    /\ update_data' = [update_data EXCEPT ![b] = data]

\* push_button_content_update (routes.py lines 138-158) with the request
\* body req, up to the suspension of the broadcast it awaits
PushButtonContentUpdate(b, req) ==
    /\ BroadcastButtonUpdate(b, model_dump_exclude_none(validate(req)))
    /\ push_request' = [push_request EXCEPT ![b] = req]

\* ------------------------------------------------------------------------
\* The application state (app.state) and the configuration handlers
\* ------------------------------------------------------------------------
\* UIConfig values; None is the value of a configuration that did not load
UIConfigs == {"ui1", "ui2"}

\* the definitions of the configurations given to the application: for id
\* a one that resolves and one whose function is missing, for id b one
\* that resolves
AppDefinitions ==
    {d \in ActionDefinition :
        /\ d.module = "m"
        /\ \/ d.function = "f_sync"
           \/ d.function = "missing_fn" /\ d.id = "a"}

\* ActionsConfig values with at most MaxDefs definitions
AppConfigs ==
    {cfg \in Configs :
        /\ cfg.given
        /\ \A i \in DOMAIN cfg.actions : cfg.actions[i] \in AppDefinitions}

\* every definition of the configuration resolves to a callable
AllResolve(cfg) == \A i \in DOMAIN cfg.actions : Resolves(cfg.actions[i])

\* len(registry._actions)
len_actions(reg) == Cardinality({id \in ActionIds : reg.actions[id] # None})

\* the response of a handler: a status code, or the exception that left it
NoResponse == "none"

AppInit ==
    /\ app_pc = "init"
    /\ app_attrs = {}
    /\ ui_config = None
    /\ actions_config = NoConfig
    /\ current_ui_config = None
    /\ current_actions_config = NoConfig
    /\ staged_ui_config = None
    /\ staged_actions_config = NoConfig
    /\ pending_update_available = FALSE
    /\ action_registry = EmptyRegistry
    /\ response = NoResponse

\* a startup that checks the UI configuration only
startup_refuses_ui_only(ui, cfg) == ui = None

\* the two checks of startup_event (main.py lines 72-82): RuntimeError when
\* the UI configuration is None, then when the actions configuration is
startup_refuses(ui, cfg) == ui = None \/ ~cfg.given

\* startup_event (main.py lines 48-93) with the configurations ConfigLoader
\* produced (None for one that could not be loaded)
Startup(ui, cfg) ==
    /\ app_pc = "init"
    /\ ui_config' = ui
    /\ actions_config' = cfg
    /\ IF startup_refuses(ui, cfg)
       THEN /\ app_pc' = "failed"
            /\ app_attrs' = app_attrs \cup {"ui_config", "actions_config"}
            /\ UNCHANGED action_registry
       ELSE /\ app_pc' = "running"
            /\ app_attrs' = app_attrs \cup {"ui_config", "actions_config", "action_registry"}
            /\ action_registry' = load_actions(EmptyRegistry, cfg)
    /\ UNCHANGED <<current_ui_config, current_actions_config, staged_ui_config,
                   staged_actions_config, pending_update_available, response>>

\* the staged state: the two staged slots and the pending flag
StagedState ==
    [ui |-> staged_ui_config, actions |-> staged_actions_config,
     pending |-> pending_update_available]

\* a stage that validates on the registry in use
temp_registry_in_use(in_use) == [shared |-> TRUE, registry |-> in_use]

\* `temp_action_registry = ActionRegistry()` (routes.py line 52): a new,
\* empty registry that is not the object app.state.action_registry holds
temp_registry(in_use) == [shared |-> FALSE, registry |-> EmptyRegistry]

\* a stage that stores the request body before it validates it
stage_stores_unchecked(old, ui, cfg, all_loaded) ==
    [ui |-> ui, actions |-> cfg, pending |-> TRUE]

\* a stage that stores the UI configuration and sets the flag only
stage_stores_ui_only(old, ui, cfg, all_loaded) ==
    IF all_loaded THEN [ui |-> ui, actions |-> old.actions, pending |-> TRUE] ELSE old

\* the staged state after stage_new_configuration (routes.py lines 57-68):
\* the HTTPException of line 64 leaves before the three assignments
stage_stores(old, ui, cfg, all_loaded) ==
    IF all_loaded THEN [ui |-> ui, actions |-> cfg, pending |-> TRUE] ELSE old

\* the assignments to the staged slots and the flag of app.state
Stores(st) ==
    /\ staged_ui_config' = st.ui
    /\ staged_actions_config' = st.actions
    /\ pending_update_available' = st.pending

\* stage_new_configuration (routes.py lines 48-74) with the request body
\* (ui, cfg).  The handler returns an HTMLResponse it built itself (line
\* 74), whose status is 200: the status_code=202 of the decorator is only
\* used for return values the framework turns into a response.
Stage(ui, cfg) ==
    /\ app_pc = "running"
    /\ LET temp == temp_registry(action_registry)
           temp_action_registry == load_actions(temp.registry, cfg)
           loaded_action_count == len_actions(temp_action_registry)
           defined_action_count == Len(cfg.actions) IN
       /\ IF loaded_action_count # defined_action_count
          THEN /\ response' = "400"
               /\ Stores(stage_stores(StagedState, ui, cfg, FALSE))
               /\ UNCHANGED app_attrs
          ELSE /\ Stores(stage_stores(StagedState, ui, cfg, TRUE))
               /\ app_attrs' = app_attrs \cup {"staged_ui_config", "staged_actions_config",
                                               "pending_update_available"}
               /\ response' = "200"
       /\ action_registry' = IF temp.shared THEN temp_action_registry ELSE action_registry
    /\ UNCHANGED <<app_pc, ui_config, actions_config, current_ui_config,
                   current_actions_config>>

\* the condition of apply_staged_configuration (lines 86-90) cannot be
\* evaluated: it reads an attribute app.state does not have
ApplyReadFails ==
    \/ "pending_update_available" \notin app_attrs
    \/ /\ pending_update_available
       /\ \/ "staged_ui_config" \notin app_attrs
          \/ staged_ui_config # None /\ "staged_actions_config" \notin app_attrs

\* nothing to apply (lines 86-90)
NothingStaged ==
    \/ ~pending_update_available
    \/ staged_ui_config = None
    \/ ~staged_actions_config.given

\* an apply that loads the new definitions into the registry in use
reloaded_action_registry(reg, cfg) == load_actions(reg, cfg)

\* an apply that leaves the registry in use in place
kept_action_registry(reg, cfg) == reg

\* new_action_registry (routes.py lines 99-100): a new ActionRegistry,
\* loaded from the configuration made current; the registry in use (reg)
\* plays no part
new_action_registry(reg, cfg) == load_actions(EmptyRegistry, cfg)

\* the result of a dependency: the value it returns, or the status of the
\* HTTPException it raises
Returned(v) == [status |-> "returned", value |-> v]
Refused(code) == [status |-> code]

\* get_current_ui_config (dependencies.py lines 12-26)
get_current_ui_config ==
    IF "current_ui_config" \in app_attrs /\ current_ui_config # None
    THEN Returned(current_ui_config) ELSE Refused("503")

\* get_action_registry (dependencies.py lines 44-59)
get_action_registry ==
    IF "action_registry" \in app_attrs
    THEN Returned(action_registry) ELSE Refused("500")

\* get_pending_update_flag (dependencies.py lines 62-66)
get_pending_update_flag ==
    IF "pending_update_available" \in app_attrs THEN pending_update_available ELSE FALSE

\* get_live_update_manager (dependencies.py lines 69-85); nothing in the
\* application sets app.state.live_update_manager
get_live_update_manager ==
    IF "live_update_manager" \in app_attrs
    THEN Returned("manager") ELSE Refused("500")

\* a button request whose dependencies have not been resolved
NotResolved == [status |-> "none"]
NoButtonRequest == [at |-> "none", ui_config |-> NotResolved, action_registry |-> NotResolved]

\* the button requests served, which may overlap
ButtonRequests == {"r1", "r2"}

RequestInit == button_request = [r \in ButtonRequests |-> NoButtonRequest]

\* where a request is after a dependency gave result r
after_dependency(r, next) == IF r.status = "returned" THEN next ELSE "refused"

\* a button request arrives: its first dependency, ui_config =
\* Depends(get_ui_config), is resolved (routes.py line 421).  The
\* dependencies are plain functions, which the framework runs in its
\* thread pool and awaits one after the other, so other requests are
\* served before the next one is resolved.
ResolveUiConfig(r) ==
    /\ app_pc = "running"
    /\ button_request[r].at = "none"
    /\ button_request' =
           [button_request EXCEPT ![r].ui_config = get_current_ui_config,
                                  ![r].at = after_dependency(get_current_ui_config, "ui_config")]

\* the second dependency, action_registry = Depends(get_action_registry)
\* (routes.py line 422); handle_button_action is then called with the two
\* values and uses them with no await up to execute_action (lines 424-457)
ResolveRegistry(r) ==
    /\ button_request[r].at = "ui_config"
    /\ button_request' =
           [button_request EXCEPT ![r].action_registry = get_action_registry,
                                  ![r].at = after_dependency(get_action_registry, "handler")]

\* the request is answered, by the handler or with the dependency's error
RequestAnswered(r) ==
    /\ button_request[r].at \in {"handler", "refused"}
    /\ button_request' = [button_request EXCEPT ![r].at = "answered"]

\* an apply that has not made the staged configuration current when it
\* broadcasts
published_later(staged, current) == current

\* `request.app.state.current_ui_config = request.app.state.staged_ui_config`
\* and the same for the actions configuration (routes.py lines 96-97): the
\* value app.state holds from then on
published(staged, current) == staged

\* no apply awaits the broadcast
NoApplied == [ui |-> None, actions |-> NoConfig]

\* apply_staged_configuration (routes.py lines 78-117), called with the
\* live-update manager, up to the suspension of the broadcast_json call b
\* that carries its navigation_update ("pending": the handler waits for it)
Apply(b) ==
    /\ app_pc = "running"
    /\ IF ApplyReadFails
       THEN /\ response' = "AttributeError"
            /\ UNCHANGED <<app_attrs, current_ui_config, current_actions_config,
                           staged_ui_config, staged_actions_config,
                           pending_update_available, action_registry, applied>>
            /\ UNCHANGED live_vars
            /\ UNCHANGED push_vars
       ELSE IF NothingStaged
       THEN /\ response' = "404"
            /\ UNCHANGED <<app_attrs, current_ui_config, current_actions_config,
                           staged_ui_config, staged_actions_config,
                           pending_update_available, action_registry, applied>>
            /\ UNCHANGED live_vars
            /\ UNCHANGED push_vars
       ELSE /\ current_ui_config' = published(staged_ui_config, current_ui_config)
            /\ current_actions_config' =
                   published(staged_actions_config, current_actions_config)
            /\ action_registry' = new_action_registry(action_registry, current_actions_config')
            /\ applied' = [applied EXCEPT ![b] =
                               [ui |-> staged_ui_config, actions |-> staged_actions_config]]
            /\ staged_ui_config' = None
            /\ staged_actions_config' = NoConfig
            /\ pending_update_available' = FALSE
            /\ app_attrs' = app_attrs \cup {"current_ui_config", "current_actions_config",
                                            "action_registry"}
            /\ BroadcastJson(b, [type |-> "navigation_update", payload |-> NoPayload])
            /\ UNCHANGED <<update_data, push_request>>
            /\ response' = IF pc'[b] = "done" THEN "200" ELSE "pending"
    /\ UNCHANGED <<app_pc, ui_config, actions_config>>

\* gather returns to the broadcast_json call b that an apply awaits:
\* broadcast_json runs to its end and apply_staged_configuration with it
\* (routes.py lines 111-117), or the exception of broadcast_json leaves it
ApplyFinish(b) ==
    /\ message[b].type = "navigation_update"
    /\ BroadcastFinish(b)
    /\ response' = IF raised'[b] THEN "IndexError" ELSE "200"
    /\ UNCHANGED <<app_pc, app_attrs, ui_config, actions_config, current_ui_config,
                   current_actions_config, staged_ui_config, staged_actions_config,
                   pending_update_available, action_registry, applied>>

\* channel c has been sent the navigation_update of call b
Received(b, c) ==
    /\ message[b].type = "navigation_update"
    /\ \E i \in DOMAIN tasks[b] : tasks[b][i] = c /\ results[b][i] = "ok"

\* no navigation panel was requested
NotServed == [status |-> "none"]

\* a navigation panel request is being served
PanelInFlight == nav_served.status \in {"ui_config", "flag"}

\* get_navigation_panel_partial is requested by the client on channel c
\* when it has received navigation_update: the first dependency,
\* ui_config = Depends(get_ui_config) (routes.py line 378), is resolved
\* or refuses the request.  The dependencies are plain functions that the
\* framework runs in its thread pool and awaits one after the other, so
\* other requests are served between them and before the handler body.
NavigationPanelUiConfig(c) ==
    /\ \E b \in Broadcasts : Received(b, c)
    /\ ~PanelInFlight
    /\ nav_served' =
           IF get_current_ui_config.status = "returned"
           THEN [status |-> "ui_config", ui_config |-> get_current_ui_config.value]
           ELSE get_current_ui_config
    /\ UNCHANGED applied

\* the second dependency, pending_update_available =
\* Depends(get_pending_update_flag) (line 379), is resolved
NavigationPanelFlag ==
    /\ nav_served.status = "ui_config"
    /\ nav_served' = [status |-> "flag", ui_config |-> nav_served.ui_config,
                      pending_update_available |-> get_pending_update_flag]
    /\ UNCHANGED applied

\* the body of get_navigation_panel_partial (lines 386-414): the panel is
\* rendered from the two values the dependencies returned
NavigationPanel ==
    /\ nav_served.status = "flag"
    /\ nav_served' = [status |-> "returned", value |-> nav_served.ui_config,
                      pending_update_available |-> nav_served.pending_update_available]
    /\ UNCHANGED applied

\* a discard that clears the flag and leaves the slots
discarded_flag_only(old) == [old EXCEPT !.pending = FALSE]

\* the staged state after discard_staged_configuration (routes.py lines
\* 123-125): both slots None, the flag False
discarded(old) == [ui |-> None, actions |-> NoConfig, pending |-> FALSE]

\* discard_staged_configuration (routes.py lines 121-131)
Discard ==
    /\ app_pc = "running"
    /\ Stores(discarded(StagedState))
    /\ app_attrs' = app_attrs \cup {"staged_ui_config", "staged_actions_config",
                                    "pending_update_available"}
    /\ response' = "200"
    /\ UNCHANGED <<app_pc, ui_config, actions_config, current_ui_config,
                   current_actions_config, action_registry>>

\* ------------------------------------------------------------------------
\* UIConfig and its lookups (config/models.py)
\* ------------------------------------------------------------------------
PageIds == {"p1", "p2"}
BoardButtonIds == {"k1", "k2"}

\* ButtonConfig: id and action_id (the other fields play no part in a
\* lookup or a press)
ButtonConfig == [id : BoardButtonIds, action_id : ActionIds]

\* the lists of at most n entries of the set vals
RECURSIVE ListsUpTo(_, _)
ListsUpTo(vals, n) ==
    IF n = 0 THEN {<<>>}
    ELSE LET shorter == ListsUpTo(vals, n - 1) IN
         shorter \cup {Append(l, v) : l \in {x \in shorter : Len(x) = n - 1}, v \in vals}

\* PageConfig: id and buttons, a list of any buttons (here of at most
\* MaxButtons)
PageConfig == [id : PageIds, buttons : ListsUpTo(ButtonConfig, MaxButtons)]

\* the pages with j buttons
PagesWith(j) == {pg \in PageConfig : Len(pg.buttons) = j}

\* the lists of n pages with at most k buttons between them (PagesFrom:
\* those whose first page has j buttons or more)
RECURSIVE PagesOf(_, _)
RECURSIVE PagesFrom(_, _, _)
PagesFrom(n, k, j) ==
    IF j > k THEN {}
    ELSE {<<page>> \o rest : rest \in PagesOf(n - 1, k - j), page \in PagesWith(j)}
         \cup PagesFrom(n, k, j + 1)

PagesOf(n, k) == IF n = 0 THEN {<<>>} ELSE PagesFrom(n, k, 0)

\* UIConfig.pages: at most n pages that hold at most k buttons between
\* them; neither page ids nor button ids need be unique
RECURSIVE Boards(_, _)
Boards(n, k) == IF n = 0 THEN PagesOf(0, k) ELSE Boards(n - 1, k) \cup PagesOf(n, k)

\* the return value None of a lookup
NotFound == [found |-> FALSE]

\* a scan that runs to the end of the list and keeps the last item with
\* the id: its position, 0 when there is none
RECURSIVE last_with_id(_, _)
last_with_id(items, id) ==
    IF items = <<>> THEN 0
    ELSE IF items[Len(items)].id = id THEN Len(items)
    ELSE last_with_id(SubSeq(items, 1, Len(items) - 1), id)

\* `for x in items: if x.id == id: return ...` (lines 111-113 over the
\* buttons of a page, lines 129-131 over the pages): the position of the
\* item at which the loop returns, 0 when the loop runs to its end
RECURSIVE first_with_id(_, _)
first_with_id(items, id) ==
    IF items = <<>> THEN 0
    ELSE IF Head(items).id = id THEN 1
    ELSE LET later == first_with_id(Tail(items), id) IN
         IF later = 0 THEN 0 ELSE later + 1

\* UIConfig.find_page (lines 117-132): None for an empty list, else the
\* loop returns at the first page whose id is page_id
find_page(pages, page_id) ==
    LET i == first_with_id(pages, page_id) IN
    IF i = 0 THEN NotFound ELSE [found |-> TRUE, page |-> pages[i]]

\* the inner loop of find_button_and_page (lines 110-114) over the buttons
\* of one page: it returns at the first button whose id is button_id
find_button(buttons, button_id) ==
    LET i == first_with_id(buttons, button_id) IN
    IF i = 0 THEN NotFound ELSE [found |-> TRUE, button |-> buttons[i]]

\* UIConfig.find_button_and_page (lines 96-115): the tuple (page, button)
\* of the first hit, or None
RECURSIVE find_button_and_page(_, _)
find_button_and_page(pages, button_id) ==
    IF pages = <<>> THEN NotFound
    ELSE LET page == Head(pages)
             hit == find_button(page.buttons, button_id) IN
         IF hit.found THEN [found |-> TRUE, page |-> page, button |-> hit.button]
         ELSE find_button_and_page(Tail(pages), button_id)

NoFind == [op |-> "none", id |-> None, value |-> NotFound]

\* a UIConfig with any pages, and no lookup made
FindInit ==
    /\ board \in Boards(MaxPages, MaxButtons)
    /\ find_ret = NoFind

\* ui_config.find_page(page_id)
FindPage(page_id) ==
    /\ find_ret' = [op |-> "find_page", id |-> page_id, value |-> find_page(board, page_id)]
    /\ UNCHANGED board

\* ui_config.find_button_and_page(button_id)
FindButtonAndPage(button_id) ==
    /\ find_ret' = [op |-> "find_button_and_page", id |-> button_id,
                    value |-> find_button_and_page(board, button_id)]
    /\ UNCHANGED board

\* ------------------------------------------------------------------------
\* handle_button_action (web/routes.py): a button press
\* ------------------------------------------------------------------------
\* no response: the call was not made
NoPress == [status |-> "none"]

\* button_config.action_params.model_dump() (line 452): the buttons of the
\* model carry no parameters, the dict is empty
model_dump(button_config) == "empty"

\* isinstance(result, dict) (line 462): what execute_action returned is a
\* dict unless it is the coroutine object of an awaitable-returning callable
isinstance_dict(result) == "coroutine" \notin DOMAIN result

\* dict.get(key, default)
dict_get(d, key, default) == IF key \in DOMAIN d THEN d[key] ELSE default

\* str(result["message"]) (line 473) for the message of an action's own
\* dict: the text, as a sequence of one part
str_message(text) == <<text>>

\* a handler that reports every result as a success
feedback_success(action_id, result) ==
    [message |-> <<"Action", action_id, "completed.">>, toast_class |-> "toast show"]

\* feedback_message and toast_class for the result of execute_action
\* (lines 459-475); the results of the model are never plain strings
feedback(action_id, result) ==
    LET completed ==
            [message |-> <<"Action", action_id, "completed.">>, toast_class |-> "toast show"]
    IN  IF isinstance_dict(result)
        THEN IF "error" \in DOMAIN result \/ dict_get(result, "status", None) = "error"
             THEN [message |-> dict_get(result, "message",
                                   dict_get(result, "error",
                                       <<"Error executing action", action_id>>)),
                   toast_class |-> "toast show error"]
             ELSE IF "message" \in DOMAIN result
                  THEN [message |-> str_message(result.message), toast_class |-> "toast show"]
                  ELSE completed
        ELSE completed

\* the HTMLResponse of lines 477-494: the toast and the button rendered
button_response(button_config, action_id, result) ==
    LET fb == feedback(action_id, result) IN
    [status |-> "returned", code |-> "200", button |-> button_config,
     message |-> fb.message, toast_class |-> fb.toast_class]

\* the HTMLResponse of lines 438-448 for a button id the configuration
\* does not have
no_button_response(button_id) ==
    [status |-> "returned", code |-> "200", button |-> NotFound,
     message |-> <<"Configuration error: Button ID", button_id, "not found.">>,
     toast_class |-> "toast show error"]

\* the response once execute_action call e has ended: built from its
\* return value, or its exception leaves the handler
after_execute(e, button_config, epc, eret) ==
    IF epc[e] = "raised" THEN [status |-> "raised", button |-> button_config]
    ELSE IF epc[e] = "awaiting" THEN [status |-> "awaiting", button |-> button_config]
    ELSE button_response(button_config, button_config.action_id, eret[e])

\* handle_button_action(button_id) with the UI configuration `board` and
\* the registry (lines 417-494), up to its return or to the suspension of
\* execute_action in the coroutine of the action; out is what the action
\* does when it is a plain callable
HandleButtonAction(e, button_id, out) ==
    /\ exec_pc[e] # "awaiting"
    /\ LET found_config == find_button_and_page(board, button_id) IN
       IF ~found_config.found
       THEN /\ press_ret' = [press_ret EXCEPT ![e] = no_button_response(button_id)]
            /\ UNCHANGED <<reg_vars, exec_vars>>
       ELSE LET button_config == found_config.button
                action_id == button_config.action_id
                action_params == model_dump(button_config) IN
            /\ \/ ExecuteNotFound(e, action_id, action_params)
               \/ ExecuteSync(e, action_id, action_params, out)
               \/ ExecuteAsyncStart(e, action_id, action_params)
            /\ press_ret' = [press_ret EXCEPT ![e] =
                                 after_execute(e, button_config, exec_pc', exec_ret')]
    /\ UNCHANGED board

\* the coroutine of the action ends with out: execute_action returns and
\* the handler runs to its end (lines 457-494)
HandleButtonActionResumes(e, out) ==
    /\ press_ret[e].status = "awaiting"
    /\ ExecuteAsyncDone(e, out)
    /\ press_ret' = [press_ret EXCEPT ![e] =
                         after_execute(e, press_ret[e].button, exec_pc', exec_ret')]
    /\ UNCHANGED board

\* ------------------------------------------------------------------------
\* ConfigLoader (config/loader.py)
\* ------------------------------------------------------------------------
\* the two configurations a loader loads
ConfigKinds == {"ui", "actions"}

\* DEFAULT_USER_*_CONFIG_FILE, EXAMPLE_*_CONFIG_FILE (lines 15-22) and a
\* path of the caller's own
user_file(kind) == <<"user_config", kind>>
example_file(kind) == <<"config_examples", kind>>
other_file(kind) == <<"elsewhere", kind>>
FilePaths ==
    UNION {{user_file(k), example_file(k), other_file(k)} : k \in ConfigKinds}
NoPath == <<"None", "None">>

\* what a path holds: no file; a file that is empty or only comments; text
\* that is no YAML; YAML for a false value ({}, [], 0); YAML that the model
\* class rejects (a wrong shape, or no mapping at all); a valid
\* configuration
Contents == {"missing", "empty", "unparsable", "falsy", "invalid", "valid"}

\* the value None of yaml data, and of a configuration that is not loaded
NoData == "no data"
Unloaded == [loaded |-> FALSE]

\* _attempt_load_yaml (lines 64-89): None when the file does not exist,
\* holds nothing or cannot be parsed; else the parsed data
attempt_load_yaml(content) ==
    IF content \in {"missing", "empty", "unparsable"} THEN NoData ELSE content

\* truth value of the data (`if ui_data:`, lines 109 and 131)
truthy(data) == data \in {"invalid", "valid"}

\* UIConfig(**data) / ActionsConfig(**data) in its try block (lines
\* 110-115, 132-137): the model built from the file at path, or None when
\* validation raises
validated(data, path) ==
    IF data = "valid" THEN [loaded |-> TRUE, from |-> path] ELSE Unloaded

\* primary_*_config_path (lines 48, 52): `path or DEFAULT_USER_..._FILE`
primary_path(given, kind) == IF given # NoPath THEN given ELSE user_file(kind)

\* a loader that keeps the example file as fallback whatever it was given
fallback_always(given, kind) == example_file(kind)

\* fallback_*_config_path (lines 49, 53): None when a path was given
fallback_path(given, kind) == IF given # NoPath THEN NoPath ELSE example_file(kind)

\* one half of load_configs (lines 100-115 for the UI, 122-137 for the
\* actions): the paths tried, in order, and the configuration stored
load_one(fs, given, kind) ==
    LET primary == primary_path(given, kind)
        fallback == fallback_path(given, kind)
        first == attempt_load_yaml(fs[primary])
        falls == first = NoData /\ fallback # NoPath
        data == IF falls THEN attempt_load_yaml(fs[fallback]) ELSE first
        loaded_path == IF falls /\ truthy(data) THEN fallback ELSE primary IN
    [tried |-> IF falls THEN <<primary, fallback>> ELSE <<primary>>,
     config |-> IF truthy(data) THEN validated(data, loaded_path) ELSE Unloaded]

NoLoader ==
    [pc |-> "none", given |-> [k \in ConfigKinds |-> NoPath],
     tried |-> [k \in ConfigKinds |-> <<>>],
     config |-> [k \in ConfigKinds |-> Unloaded]]

\* any file system, and no loader constructed
LoaderInit ==
    /\ files \in [FilePaths -> Contents]
    /\ loader = NoLoader

\* the paths a caller may give for a configuration: none, a path of its
\* own, or the example file itself
GivenPaths(kind) == {NoPath, other_file(kind), example_file(kind)}

\* ConfigLoader(ui_config_path, actions_config_path).load_configs()
ConfigLoaderRun(ui_config_path, actions_config_path) ==
    /\ loader.pc = "none"
    /\ LET given == [k \in ConfigKinds |->
                        IF k = "ui" THEN ui_config_path ELSE actions_config_path]
           done == [k \in ConfigKinds |-> load_one(files, given[k], k)] IN
       loader' = [pc |-> "loaded", given |-> given,
                  tried |-> [k \in ConfigKinds |-> done[k].tried],
                  config |-> [k \in ConfigKinds |-> done[k].config]]
    /\ UNCHANGED files

\* ------------------------------------------------------------------------
\* Specifications.  Each one starts with the components it is about
\* constructed; a component that takes no part in it is not built and its
\* variables keep this value.
\* ------------------------------------------------------------------------
NotBuilt == "not built"

LiveOff ==
    /\ active_connections = NotBuilt /\ pc = NotBuilt /\ tasks = NotBuilt
    /\ results = NotBuilt /\ raised = NotBuilt
    /\ accepting = NotBuilt /\ accepted = NotBuilt

RegOff ==
    /\ actions = NotBuilt /\ action_definitions = NotBuilt
    /\ last_config = NotBuilt /\ loads = NotBuilt
    /\ load_raised = NotBuilt /\ get_ret = NotBuilt

ExecOff ==
    /\ exec_pc = NotBuilt /\ exec_id = NotBuilt /\ exec_func = NotBuilt
    /\ invoked = NotBuilt /\ action_out = NotBuilt /\ exec_ret = NotBuilt

AppOff ==
    /\ app_pc = NotBuilt /\ app_attrs = NotBuilt
    /\ ui_config = NotBuilt /\ actions_config = NotBuilt
    /\ current_ui_config = NotBuilt /\ current_actions_config = NotBuilt
    /\ staged_ui_config = NotBuilt /\ staged_actions_config = NotBuilt
    /\ pending_update_available = NotBuilt
    /\ action_registry = NotBuilt /\ response = NotBuilt

PushOff ==
    /\ message = NotBuilt /\ update_data = NotBuilt /\ push_request = NotBuilt

FindOff == board = NotBuilt /\ find_ret = NotBuilt

LoaderOff == files = NotBuilt /\ loader = NotBuilt

NavInit ==
    /\ applied = [b \in Broadcasts |-> NoApplied]
    /\ nav_served = NotServed

NavOff == applied = NotBuilt /\ nav_served = NotBuilt

ButtonInit == press_ret = [e \in Execs |-> NoPress]

ButtonOff == press_ret = NotBuilt

EndpointOff == ended = NotBuilt

RequestOff == button_request = NotBuilt

\* the components that take part in no specification but their own
OthersOff == EndpointOff /\ RequestOff

\* a LiveUpdateManager and an ActionRegistry, each on its own
Init == LiveInit /\ RegInit /\ ExecOff /\ AppOff /\ PushOff /\ FindOff /\ LoaderOff /\ NavOff /\ ButtonOff /\ OthersOff

\* an ActionRegistry and its callers
ExecSpecInit == LiveOff /\ RegInit /\ ExecInit /\ AppOff /\ PushOff /\ FindOff /\ LoaderOff /\ NavOff /\ ButtonOff /\ OthersOff

\* a LiveUpdateManager and the callers of its broadcasts
PushSpecInit == LiveInit /\ RegOff /\ ExecOff /\ AppOff /\ PushInit /\ FindOff /\ LoaderOff /\ NavOff /\ ButtonOff /\ OthersOff

\* the application with its LiveUpdateManager
AppSpecInit == LiveInit /\ RegOff /\ ExecOff /\ AppInit /\ PushInit /\ FindOff /\ LoaderOff /\ NavInit /\ ButtonOff /\ OthersOff

\* a UIConfig on its own
FindSpecInit ==
    LiveOff /\ RegOff /\ ExecOff /\ AppOff /\ PushOff /\ FindInit /\ LoaderOff /\ NavOff /\ ButtonOff /\ OthersOff

\* a file system and the loader run on it
LoaderSpecInit ==
    LiveOff /\ RegOff /\ ExecOff /\ AppOff /\ PushOff /\ FindOff /\ LoaderInit /\ NavOff /\ ButtonOff /\ OthersOff

Next ==
    \/ \E c \in Channels : ConnectBegin(c) /\ UNCHANGED non_live_vars
    \/ \E c \in Channels : AcceptReturns(c, MaxConn) /\ UNCHANGED non_live_vars
    \/ \E c \in Channels : AcceptRaises(c) /\ UNCHANGED non_live_vars
    \/ \E c \in Channels : Disconnect(c) /\ UNCHANGED non_live_vars
    \/ \E b \in Broadcasts : BroadcastStart(b) /\ UNCHANGED non_live_vars
    \/ \E b \in Broadcasts, i \in 1..MaxConn : BroadcastSendOk(b, i) /\ UNCHANGED non_live_vars
    \/ \E b \in Broadcasts, i \in 1..MaxConn : BroadcastSendFail(b, i) /\ UNCHANGED non_live_vars
    \/ \E b \in Broadcasts : BroadcastFinish(b) /\ UNCHANGED non_live_vars

Spec == Init /\ [][Next]_vars

\* The event loop runs every ready task: a send to a channel that is not
\* stuck completes, and a gather whose tasks are all finished returns.
Fairness ==
    /\ \A b \in Broadcasts, i \in 1..MaxLiveConn :
           WF_vars(/\ BroadcastSendOk(b, i) \/ BroadcastSendFail(b, i)
                   /\ tasks[b][i] \notin SlowChannels
                   /\ UNCHANGED non_live_vars)
    /\ \A b \in Broadcasts : WF_vars(BroadcastFinish(b) /\ UNCHANGED non_live_vars)

\* The manager with the list kept to MaxLiveConn entries of the channels
\* LiveChannels; connect() is its two steps, so broadcasts and disconnects
\* run while a connect waits in accept()
LiveNext ==
    \/ \E c \in LiveChannels : ConnectBegin(c) /\ UNCHANGED non_live_vars
    \/ \E c \in LiveChannels : AcceptReturns(c, MaxLiveConn) /\ UNCHANGED non_live_vars
    \/ \E c \in LiveChannels : AcceptRaises(c) /\ UNCHANGED non_live_vars
    \/ \E c \in LiveChannels : Disconnect(c) /\ UNCHANGED non_live_vars
    \/ \E b \in Broadcasts : BroadcastStart(b) /\ UNCHANGED non_live_vars
    \/ \E b \in Broadcasts, i \in 1..MaxLiveConn : BroadcastSendOk(b, i) /\ UNCHANGED non_live_vars
    \/ \E b \in Broadcasts, i \in 1..MaxLiveConn : BroadcastSendFail(b, i) /\ UNCHANGED non_live_vars
    \/ \E b \in Broadcasts : BroadcastFinish(b) /\ UNCHANGED non_live_vars

LiveSpec == Init /\ [][LiveNext]_vars /\ Fairness

RegNext ==
    \/ \E cfg \in Configs : LoadActions(cfg) /\ UNCHANGED non_reg_vars
    \/ \E id \in ActionIds : GetAction(id) /\ UNCHANGED non_reg_vars

RegSpec == Init /\ [][RegNext]_vars

\* The registry in use: loads of lists of at most one definition of module
\* m (which reach every content of the tables), lookups, and
\* execute_action calls that overlap while they wait for their coroutines
ExecConfigs ==
    {cfg \in Configs :
        /\ Len(cfg.actions) <= 1
        /\ \A i \in DOMAIN cfg.actions : cfg.actions[i].module = "m"}

AllOutcomes == UNION {Outcomes(f) : f \in FunctionNames}

ExecNext ==
    \/ \E cfg \in ExecConfigs :
           LoadActions(cfg) /\ UNCHANGED exec_vars /\ UNCHANGED non_exec_vars
    \/ \E id \in ActionIds :
           GetAction(id) /\ UNCHANGED exec_vars /\ UNCHANGED non_exec_vars
    \/ \E e \in Execs, id \in ActionIds, params \in Params :
           ExecuteNotFound(e, id, params) /\ UNCHANGED non_exec_vars
    \/ \E e \in Execs, id \in ActionIds, params \in Params, out \in AllOutcomes :
           ExecuteSync(e, id, params, out) /\ UNCHANGED non_exec_vars
    \/ \E e \in Execs, id \in ActionIds, params \in Params :
           ExecuteAsyncStart(e, id, params) /\ UNCHANGED non_exec_vars
    \/ \E e \in Execs, out \in AllOutcomes :
           ExecuteAsyncDone(e, out) /\ UNCHANGED non_exec_vars

ExecSpec == ExecSpecInit /\ [][ExecNext]_vars

\* The live-update manager with the handshake of connect() as a step of
\* its own
ConnNext ==
    \/ \E c \in Channels : ConnectBegin(c) /\ UNCHANGED non_live_vars
    \/ \E c \in Channels : AcceptReturns(c, MaxLiveConn) /\ UNCHANGED non_live_vars
    \/ \E c \in Channels : AcceptRaises(c) /\ UNCHANGED non_live_vars
    \/ \E c \in Channels : Disconnect(c) /\ UNCHANGED non_live_vars
    \/ \E b \in Broadcasts : BroadcastStart(b) /\ UNCHANGED non_live_vars
    \/ \E b \in Broadcasts, i \in 1..MaxLiveConn : BroadcastSendOk(b, i) /\ UNCHANGED non_live_vars
    \/ \E b \in Broadcasts, i \in 1..MaxLiveConn : BroadcastSendFail(b, i) /\ UNCHANGED non_live_vars
    \/ \E b \in Broadcasts : BroadcastFinish(b) /\ UNCHANGED non_live_vars

ConnSpec == Init /\ [][ConnNext]_vars

\* Two broadcast_json calls on one manager: channels connect, the first
\* call starts, and the second starts while the first waits in gather
Calls == {"b1", "b2"}

OverlapSpecInit ==
    /\ active_connections = <<>>
    /\ pc = [b \in Calls |-> "idle"]
    /\ tasks = [b \in Calls |-> <<>>]
    /\ results = [b \in Calls |-> <<>>]
    /\ raised = [b \in Calls |-> FALSE]
    /\ accepting = {}
    /\ accepted = {}
    /\ RegOff /\ ExecOff /\ AppOff /\ PushOff /\ FindOff /\ LoaderOff /\ NavOff /\ ButtonOff
    /\ OthersOff

OverlapNext ==
    \/ \E c \in Channels :
           /\ \A b \in Calls : pc[b] = "idle"
           /\ c \notin accepted
           /\ ConnectBegin(c)
           /\ UNCHANGED non_live_vars
    \/ \E c \in Channels : AcceptReturns(c, MaxLiveConn) /\ UNCHANGED non_live_vars
    \/ \E c \in Channels : AcceptRaises(c) /\ UNCHANGED non_live_vars
    \/ pc["b1"] = "idle" /\ BroadcastStart("b1") /\ UNCHANGED non_live_vars
    \/ /\ pc["b2"] = "idle" /\ pc["b1"] = "sending"
       /\ BroadcastStart("b2") /\ UNCHANGED non_live_vars
    \/ \E b \in Calls, i \in 1..MaxLiveConn : BroadcastSendOk(b, i) /\ UNCHANGED non_live_vars
    \/ \E b \in Calls, i \in 1..MaxLiveConn : BroadcastSendFail(b, i) /\ UNCHANGED non_live_vars
    \/ \E b \in Calls : BroadcastFinish(b) /\ UNCHANGED non_live_vars

OverlapSpec == OverlapSpecInit /\ [][OverlapNext]_vars

\* The endpoint handlers of the channels, one per channel, with broadcasts
\* around them
non_endpoint_live_vars ==
    <<reg_vars, exec_vars, app_vars, push_vars, find_vars, loader_vars, nav_vars, button_vars,
      request_vars>>

EndpointSpecInit ==
    /\ LiveInit /\ RegOff /\ ExecOff /\ AppOff /\ PushOff /\ FindOff /\ LoaderOff /\ NavOff
    /\ ButtonOff /\ EndpointInit /\ RequestOff

EndpointNext ==
    \/ \E c \in Channels : EndpointConnects(c) /\ UNCHANGED non_endpoint_live_vars
    \/ \E c \in Channels : EndpointAccepted(c, MaxConn) /\ UNCHANGED non_endpoint_live_vars
    \/ \E c \in Channels : EndpointAcceptFails(c) /\ UNCHANGED non_endpoint_live_vars
    \/ \E c \in Channels, reason \in EndReasons :
           EndpointEnds(c, reason) /\ UNCHANGED non_endpoint_live_vars
    \/ \E b \in Broadcasts : BroadcastStart(b) /\ UNCHANGED non_live_vars
    \/ \E b \in Broadcasts, i \in 1..MaxConn : BroadcastSendOk(b, i) /\ UNCHANGED non_live_vars
    \/ \E b \in Broadcasts, i \in 1..MaxConn : BroadcastSendFail(b, i) /\ UNCHANGED non_live_vars
    \/ \E b \in Broadcasts : BroadcastFinish(b) /\ UNCHANGED non_live_vars

EndpointSpec == EndpointSpecInit /\ [][EndpointNext]_vars

\* The live-update manager with broadcasts made through
\* broadcast_button_update, completed by the sends, with connects and
\* disconnects around them
WrapNext ==
    \/ \E c \in LiveChannels :
           ConnectBegin(c) /\ UNCHANGED <<push_vars, non_push_vars>>
    \/ \E c \in LiveChannels :
           AcceptReturns(c, MaxLiveConn) /\ UNCHANGED <<push_vars, non_push_vars>>
    \/ \E c \in LiveChannels :
           AcceptRaises(c) /\ UNCHANGED <<push_vars, non_push_vars>>
    \/ \E c \in LiveChannels :
           Disconnect(c) /\ UNCHANGED <<push_vars, non_push_vars>>
    \/ \E b \in Broadcasts, i \in 1..MaxLiveConn :
           BroadcastSendOk(b, i) /\ UNCHANGED <<push_vars, non_push_vars>>
    \/ \E b \in Broadcasts, i \in 1..MaxLiveConn :
           BroadcastSendFail(b, i) /\ UNCHANGED <<push_vars, non_push_vars>>
    \/ \E b \in Broadcasts :
           BroadcastFinish(b) /\ UNCHANGED <<push_vars, non_push_vars>>
    \/ \E b \in Broadcasts, data \in Payloads :
           BroadcastButtonUpdate(b, data) /\ UNCHANGED push_request
                                          /\ UNCHANGED non_push_vars

WrapSpec == PushSpecInit /\ [][WrapNext]_vars

\* The live-update manager with broadcasts made by update_content requests
PushNext ==
    \/ \E c \in LiveChannels :
           ConnectBegin(c) /\ UNCHANGED <<push_vars, non_push_vars>>
    \/ \E c \in LiveChannels :
           AcceptReturns(c, MaxLiveConn) /\ UNCHANGED <<push_vars, non_push_vars>>
    \/ \E c \in LiveChannels :
           AcceptRaises(c) /\ UNCHANGED <<push_vars, non_push_vars>>
    \/ \E c \in LiveChannels :
           Disconnect(c) /\ UNCHANGED <<push_vars, non_push_vars>>
    \/ \E b \in Broadcasts, i \in 1..MaxLiveConn :
           BroadcastSendOk(b, i) /\ UNCHANGED <<push_vars, non_push_vars>>
    \/ \E b \in Broadcasts, i \in 1..MaxLiveConn :
           BroadcastSendFail(b, i) /\ UNCHANGED <<push_vars, non_push_vars>>
    \/ \E b \in Broadcasts :
           BroadcastFinish(b) /\ UNCHANGED <<push_vars, non_push_vars>>
    \/ \E b \in Broadcasts, req \in Requests :
           PushButtonContentUpdate(b, req) /\ UNCHANGED non_push_vars

PushSpec == PushSpecInit /\ [][PushNext]_vars

\* The application: startup, then stage, apply and discard requests in any
\* order, with no channel connected
AppNext ==
    \/ \E ui \in UIConfigs \cup {None}, cfg \in AppConfigs \cup {NoConfig} :
           Startup(ui, cfg) /\ UNCHANGED live_vars /\ UNCHANGED non_app_vars
    \/ \E ui \in UIConfigs, cfg \in AppConfigs :
           Stage(ui, cfg) /\ UNCHANGED live_vars /\ UNCHANGED non_app_vars
    \/ \E b \in Broadcasts : Apply(b) /\ UNCHANGED <<non_app_live_vars, nav_served>>
    \/ Discard /\ UNCHANGED live_vars /\ UNCHANGED non_app_vars

AppSpec == AppSpecInit /\ [][AppNext]_vars

\* The application with channels connected: the navigation_update of an
\* apply is sent while clients connect, disconnect and request the panel
NavChannels == {"c1", "c2"}

NavConfigs == {cfg \in AppConfigs : Len(cfg.actions) = 1 /\ AllResolve(cfg)}

\* the updates staged: a UI configuration with its actions configuration
NavUpdates ==
    {u \in UIConfigs \X NavConfigs : (u[1] = "ui1") <=> (u[2].actions[1].id = "a")}

NavNext ==
    \/ \E u \in {v \in NavUpdates : v[1] = "ui1"} :
           Startup(u[1], u[2]) /\ UNCHANGED live_vars /\ UNCHANGED non_app_vars
    \/ \E u \in NavUpdates :
           Stage(u[1], u[2]) /\ UNCHANGED live_vars /\ UNCHANGED non_app_vars
    \/ \E b \in Broadcasts : Apply(b) /\ UNCHANGED <<non_app_live_vars, nav_served>>
    \/ \E b \in Broadcasts :
           ApplyFinish(b) /\ UNCHANGED <<non_app_live_vars, push_vars, nav_served>>
    \/ \E c \in NavChannels :
           /\ ~Contains(active_connections, c)
           /\ ConnectBegin(c) /\ UNCHANGED non_live_vars
    \/ \E c \in NavChannels : AcceptReturns(c, MaxLiveConn) /\ UNCHANGED non_live_vars
    \/ \E c \in NavChannels : AcceptRaises(c) /\ UNCHANGED non_live_vars
    \/ \E c \in NavChannels : Disconnect(c) /\ UNCHANGED non_live_vars
    \/ \E b \in Broadcasts, i \in 1..MaxLiveConn :
           BroadcastSendOk(b, i) /\ UNCHANGED non_live_vars
    \/ \E b \in Broadcasts, i \in 1..MaxLiveConn :
           BroadcastSendFail(b, i) /\ UNCHANGED non_live_vars
    \/ \E c \in NavChannels :
           NavigationPanelUiConfig(c)
               /\ UNCHANGED <<live_vars, app_vars, non_app_live_vars, push_vars>>
    \/ NavigationPanelFlag /\ UNCHANGED <<live_vars, app_vars, non_app_live_vars, push_vars>>
    \/ NavigationPanel /\ UNCHANGED <<live_vars, app_vars, non_app_live_vars, push_vars>>

NavSpec == AppSpecInit /\ [][NavNext]_vars

\* The application serving a button request while configurations are
\* staged and applied
RequestSpecInit ==
    /\ LiveInit /\ RegOff /\ ExecOff /\ AppInit /\ PushInit /\ FindOff /\ LoaderOff /\ NavInit
    /\ ButtonOff /\ EndpointOff /\ RequestInit

RequestNext ==
    \/ \E u \in {v \in NavUpdates : v[1] = "ui1"} :
           Startup(u[1], u[2]) /\ UNCHANGED live_vars /\ UNCHANGED non_app_vars
    \/ \E u \in NavUpdates :
           Stage(u[1], u[2]) /\ UNCHANGED live_vars /\ UNCHANGED non_app_vars
    \/ \E b \in Broadcasts : Apply(b) /\ UNCHANGED <<non_app_live_vars, nav_served>>
    \/ Discard /\ UNCHANGED live_vars /\ UNCHANGED non_app_vars
    \/ \E r \in ButtonRequests : ResolveUiConfig(r) /\ UNCHANGED non_request_vars
    \/ \E r \in ButtonRequests : ResolveRegistry(r) /\ UNCHANGED non_request_vars
    \/ \E r \in ButtonRequests : RequestAnswered(r) /\ UNCHANGED non_request_vars

RequestSpec == RequestSpecInit /\ [][RequestNext]_vars

\* Button presses: a UI configuration of page p1 with one button, a
\* registry loaded from a list of at most one definition, and
\* handle_button_action calls that overlap while they wait for the action
ButtonBoards ==
    {<<page>> : page \in {pg \in PagesWith(1) : pg.id = "p1"}}

\* what the action of the button can do when it is a plain callable that
\* is called in the handler's first step
PressOutcomes(button_id) ==
    LET found_config == find_button_and_page(board, button_id)
        action_func == IF found_config.found
                       THEN get_action(actions, found_config.button.action_id)
                       ELSE None
    IN  IF action_func = None \/ iscoroutinefunction(action_func)
        THEN {NoOutcome}
        ELSE Outcomes(action_func)

ButtonSpecInit ==
    /\ LiveOff /\ RegInit /\ ExecInit /\ AppOff /\ PushOff /\ LoaderOff /\ NavOff
    /\ board \in ButtonBoards /\ find_ret = NoFind
    /\ ButtonInit /\ OthersOff

ButtonNext ==
    \/ \E cfg \in ExecConfigs :
           LoadActions(cfg) /\ UNCHANGED <<exec_vars, button_vars>> /\ UNCHANGED non_exec_vars
    \/ \E e \in Execs, button_id \in BoardButtonIds :
           \E out \in PressOutcomes(button_id) : HandleButtonAction(e, button_id, out)
           /\ UNCHANGED <<live_vars, app_vars, push_vars, find_ret, loader_vars, nav_vars,
                          endpoint_vars, request_vars>>
    \/ \E e \in Execs :
           \E out \in Outcomes(exec_func[e]) : HandleButtonActionResumes(e, out)
           /\ UNCHANGED <<live_vars, app_vars, push_vars, find_ret, loader_vars, nav_vars,
                          endpoint_vars, request_vars>>

ButtonSpec == ButtonSpecInit /\ [][ButtonNext]_vars

\* The lookups of a UIConfig
FindNext ==
    \/ \E id \in PageIds : FindPage(id) /\ UNCHANGED non_find_vars
    \/ \E id \in BoardButtonIds : FindButtonAndPage(id) /\ UNCHANGED non_find_vars

FindSpec == FindSpecInit /\ [][FindNext]_vars

\* One ConfigLoader run per file system and per choice of explicit paths
LoaderNext ==
    \E p \in GivenPaths("ui"), q \in GivenPaths("actions") :
        ConfigLoaderRun(p, q) /\ UNCHANGED non_loader_vars

LoaderSpec == LoaderSpecInit /\ [][LoaderNext]_vars

\* The registry under load_actions alone, with lists whose callables are
\* all of one kind (load_actions does not tell one callable from another)
LoadConfigs ==
    {cfg \in Configs :
        \A i \in DOMAIN cfg.actions :
            \/ /\ cfg.actions[i].module = "m"
               /\ cfg.actions[i].function \in {"f_sync", "not_callable", "missing_fn"}
            \/ cfg.actions[i].function = "f_sync"}

LoadNext == \E cfg \in LoadConfigs : LoadActions(cfg) /\ UNCHANGED non_reg_vars

LoadSpec == Init /\ [][LoadNext]_vars

\* The registry under load_actions with lists that may repeat an id with
\* another callable or with a function that is missing
RepeatConfigs ==
    {cfg \in Configs :
        \A i \in DOMAIN cfg.actions :
            /\ cfg.actions[i].module = "m"
            /\ cfg.actions[i].function \in {"f_sync", "f_async", "missing_fn"}}

RepeatNext == \E cfg \in RepeatConfigs : LoadActions(cfg) /\ UNCHANGED non_reg_vars

RepeatSpec == Init /\ [][RepeatNext]_vars

\* ------------------------------------------------------------------------
\* Properties of the live-update manager
\* ------------------------------------------------------------------------
\* broadcast_json call b returns in this step, and the list is the one the
\* call started from (no connect or disconnect changed it meanwhile)
ReturnsUndisturbed(b) ==
    /\ pc[b] = "sending" /\ pc'[b] = "done"
    /\ tasks[b] = active_connections
    /\ NoDup(tasks[b])

\* C1: when an undisturbed broadcast_json over N distinct channels returns,
\* every channel whose send failed is absent from the active set.
C1_FailedAbsentOnReturn ==
    [][\A b \in Broadcasts : ReturnsUndisturbed(b) =>
          \A i \in DOMAIN tasks[b] :
              results[b][i] = "exc" => ~Contains(active_connections', tasks[b][i])]_vars

\* C2: when an undisturbed broadcast_json over N distinct channels returns,
\* every channel whose send succeeded is still in the active set.
C2_SucceededStayOnReturn ==
    [][\A b \in Broadcasts : ReturnsUndisturbed(b) =>
          \A i \in DOMAIN tasks[b] :
              results[b][i] = "ok" => Contains(active_connections', tasks[b][i])]_vars

\* C3: broadcast_json never ends by raising when the only failures are
\* failed sends, also when disconnect removes a channel during the gather.
C3_NeverRaises == \A b \in Broadcasts : ~raised[b]

\* C4: when broadcast_json has ended, every channel that was in the active
\* set at its start and had no failing send has received the payload,
\* whichever other channels failed.
C4_HealthyAllReceive ==
    \A b \in Broadcasts : pc[b] = "done" =>
        \A i \in DOMAIN tasks[b] :
            (\A j \in DOMAIN tasks[b] :
                 tasks[b][j] = tasks[b][i] => results[b][j] # "exc")
            => Delivered(b, tasks[b][i]) >= 1

\* a broadcast ended in which the send to an earlier channel of the list
\* failed and the send to a later one delivered
C4_Witness ==
    \E b \in Broadcasts :
        /\ pc[b] = "done"
        /\ \E i, j \in DOMAIN tasks[b] :
               /\ i < j
               /\ tasks[b][i] # tasks[b][j]
               /\ results[b][i] = "exc" /\ results[b][j] = "ok"
               /\ Delivered(b, tasks[b][j]) = 1

\* C5: within one broadcast_json call no channel is sent the payload more
\* than once.
C5_NoDoubleDelivery ==
    \A b \in Broadcasts, c \in Channels : Delivered(b, c) <= 1

\* C6: every send of a broadcast to a channel that is not stuck completes,
\* even while the send to a stuck channel of the same broadcast stays
\* pending; a send that completes without failing has delivered the payload.
C6_HealthyNotDelayed ==
    \A b \in Broadcasts, i \in 1..MaxLiveConn :
        (pc[b] = "sending" /\ i \in DOMAIN tasks[b] /\ tasks[b][i] \notin SlowChannels)
        ~> (i \in DOMAIN results[b] /\ results[b][i] # "pending")

\* a healthy channel has received the payload while the send to a stuck
\* channel earlier in the list is still pending
C6_Witness ==
    \E b \in Broadcasts :
        /\ pc[b] = "sending"
        /\ \E i, j \in DOMAIN tasks[b] :
               /\ i < j
               /\ tasks[b][i] \in SlowChannels /\ results[b][i] = "pending"
               /\ tasks[b][j] \notin SlowChannels /\ results[b][j] = "ok"

\* C7: disconnect of a channel that is not in the active set changes
\* nothing, and a second disconnect of a channel has no further effect.
C7_DisconnectIdempotent ==
    \A c \in Channels :
        /\ ~Contains(active_connections, c)
               => disconnect(active_connections, c) = active_connections
        /\ disconnect(disconnect(active_connections, c), c)
               = disconnect(active_connections, c)

\* C8: connect(c) followed at once by disconnect(c) leaves the active set
\* with the same members, each the same number of times.
C8_ConnectDisconnectRoundTrip ==
    \A c \in Channels :
        SeqToBag(disconnect(connect_append(active_connections, c), c))
            = SeqToBag(active_connections)

\* the active set holds a channel for which the round trip moves its entry
C8_Witness ==
    \E c \in Channels :
        /\ Contains(active_connections, c)
        /\ Len(active_connections) >= 2
        /\ disconnect(connect_append(active_connections, c), c) # active_connections

\* the returning step of a broadcast_json call in which a send to channel
\* c failed
PrunedAsFailed(c) ==
    \E b \in Broadcasts :
        /\ pc[b] = "sending" /\ pc'[b] = "done"
        /\ \E i \in DOMAIN tasks[b] : tasks[b][i] = c /\ results[b][i] = "exc"

\* C36: a connected channel whose sends never fail and for which
\* disconnect is not called stays in the active set, whatever broadcasts,
\* connects, disconnects and send failures of other channels are
\* interleaved: a channel leaves the active set only in a disconnect call
\* made for it or at the return of a broadcast in which a send to it failed.
C36_HealthyStaysActive ==
    [][\A c \in Channels :
          (Contains(active_connections, c) /\ ~Contains(active_connections', c)) =>
              \/ active_connections' = disconnect(active_connections, c) /\ UNCHANGED pc
              \/ PrunedAsFailed(c)]_vars

\* the results of the sends of call b to channel c
SendResults(b, c) == {results[b][i] : i \in {j \in DOMAIN tasks[b] : tasks[b][j] = c}}

\* C37: when two broadcast_json calls overlap (the second starts while the
\* first waits for its sends) and both have returned, every channel that
\* was in the active set throughout and had no failing send has received
\* each of the two payloads exactly once and is still in the active set,
\* and every channel whose sends failed is absent.
C37_OverlappingBroadcasts ==
    (pc["b1"] = "done" /\ pc["b2"] = "done") =>
        \A c \in Channels :
            /\ (\A b \in Calls : SendResults(b, c) = {"ok"}) =>
                   /\ \A b \in Calls : Delivered(b, c) = 1
                   /\ Contains(active_connections, c)
            /\ (\A b \in Calls : SendResults(b, c) = {"exc"}) =>
                   ~Contains(active_connections, c)

\* ------------------------------------------------------------------------
\* Properties of the action registry
\* ------------------------------------------------------------------------
DistinctIds(defs) == \A i, j \in DOMAIN defs : defs[i].id = defs[j].id => i = j

\* C9: after load_actions on a list of definitions (with distinct ids),
\* get_action returns a callable for the id of every definition that
\* resolves, and None for the id of every other definition and for every
\* id that is not in the list.
C9_GetMatchesResolution ==
    (loads >= 1 /\ last_config.given /\ DistinctIds(last_config.actions)) =>
        LET defs == last_config.actions IN
        /\ \A i \in DOMAIN defs :
               IF Resolves(defs[i])
               THEN get_action(actions, defs[i].id) # None
               ELSE get_action(actions, defs[i].id) = None
        /\ \A id \in ActionIds :
               (\A i \in DOMAIN defs : defs[i].id # id)
               => get_action(actions, id) = None

\* C10: after a second load_actions on the same registry, the registry
\* holds exactly what the second argument alone resolves to.
C10_ReloadReplaces ==
    loads >= 2 =>
        LET fresh == load_actions(EmptyRegistry, last_config) IN
        /\ actions = fresh.actions
        /\ action_definitions = fresh.action_definitions

\* C11: load_actions skips a definition that fails to resolve and goes on:
\* after a load of a list, the id of every definition of the list that
\* resolves is registered, wherever the failing definitions stand, and
\* load_actions did not raise.
C11_FailingDefinitionsSkipped ==
    loads >= 1 =>
        /\ ~load_raised
        /\ \A i \in DOMAIN last_config.actions :
               Resolves(last_config.actions[i])
               => get_action(actions, last_config.actions[i].id) # None

\* a loaded list with a failing definition before a resolving one of
\* another id, which is registered
C11_Witness ==
    /\ loads >= 1
    /\ \E i, j \in DOMAIN last_config.actions :
           /\ i < j
           /\ try_raises(last_config.actions[i]) = "AttributeError"
           /\ Resolves(last_config.actions[j])
           /\ last_config.actions[j].id # last_config.actions[i].id
           /\ actions[last_config.actions[j].id] = last_config.actions[j].function
           /\ actions[last_config.actions[i].id] = None

\* ------------------------------------------------------------------------
\* Properties of execute_action
\* ------------------------------------------------------------------------
\* a new execute_action call of e is made in this step
CallStarts(e) ==
    /\ exec_pc[e] # "awaiting"
    /\ <<exec_pc[e], exec_id[e], exec_func[e], invoked[e], action_out[e], exec_ret[e]>>
         # <<exec_pc'[e], exec_id'[e], exec_func'[e], invoked'[e], action_out'[e],
             exec_ret'[e]>>

MessageContains(msg, text) == \E i \in DOMAIN msg : msg[i] = text

\* C12: an execute_action call with an id that is not in the registry
\* returns the not-found error dict (status "error"), does not raise and
\* calls no action.
C12_NotFoundIsErrorResult ==
    [][\A e \in Execs :
          (CallStarts(e) /\ get_action(actions, exec_id'[e]) = None) =>
              /\ exec_pc'[e] = "returned"
              /\ exec_ret'[e].status = "error"
              /\ exec_ret'[e] = not_found_result(exec_id'[e])
              /\ invoked'[e] = 0
              /\ action_out'[e] = NoOutcome]_vars

\* a call returned not-found for one id while the other id is registered
C12_Witness ==
    \E e \in Execs :
        /\ exec_pc[e] = "returned"
        /\ exec_func[e] = None
        /\ exec_ret[e] = not_found_result(exec_id[e])
        /\ \E id \in ActionIds : id # exec_id[e] /\ actions[id] # None

\* C13: when the action of an execute_action call raised exception E, the
\* call returned an error dict whose message contains str(E); the
\* exception did not leave execute_action.
C13_ExceptionBecomesErrorResult ==
    \A e \in Execs :
        action_out[e].kind = "raised" =>
            /\ exec_pc[e] = "returned"
            /\ exec_ret[e].status = "error"
            /\ MessageContains(exec_ret[e].message, str_exc(action_out[e].value))

\* a plain function and a coroutine function have both raised
C13_Witness ==
    \E e1, e2 \in Execs :
        /\ exec_func[e1] = "f_sync" /\ action_out[e1].kind = "raised"
        /\ exec_func[e2] = "f_async" /\ action_out[e2].kind = "raised"
        /\ action_out[e1].value # action_out[e2].value
        /\ exec_pc[e1] = "returned" /\ exec_pc[e2] = "returned"

\* C14: an execute_action call on a registered action returns only after
\* the action has completed, returns the value the action produced, and
\* never returns an awaitable that is still pending.
C14_ReturnsCompletedValue ==
    \A e \in Execs :
        (exec_pc[e] = "returned" /\ exec_func[e] # None) =>
            /\ action_out[e] # NoOutcome
            /\ action_out[e].kind = "returned" => exec_ret[e] = action_out[e].value
            /\ exec_ret[e] # Coroutine

\* C15: an execute_action call has called the action callable exactly once
\* when the id was registered, whatever the action did, and not at all
\* when it was not.
C15_InvokedOnce ==
    \A e \in Execs :
        exec_pc[e] # "idle" =>
            invoked[e] = IF exec_func[e] = None THEN 0 ELSE 1

\* one call whose action raised, and one call that missed
C15_Witness ==
    \E e1, e2 \in Execs :
        /\ exec_pc[e1] = "returned" /\ action_out[e1].kind = "raised" /\ invoked[e1] = 1
        /\ exec_pc[e2] = "returned" /\ exec_func[e2] = None /\ invoked[e2] = 0

\* C16: every step that is not a load_actions call (a get_action, or any
\* step of an execute_action call, with other calls suspended in their
\* actions) leaves both tables of the registry as they are.
C16_LookupsLeaveTables ==
    [][loads' = loads =>
          /\ actions' = actions
          /\ action_definitions' = action_definitions]_vars

\* two calls are suspended in their coroutines after a get_action that
\* found a callable
C16_Witness ==
    /\ \A e \in Execs : exec_pc[e] = "awaiting"
    /\ get_ret.value # None
    /\ \E e1, e2 \in Execs : exec_id[e1] # exec_id[e2]

\* ------------------------------------------------------------------------
\* Properties of the application state
\* ------------------------------------------------------------------------
\* the ids of the definitions of an actions configuration
ConfigIds(cfg) == {cfg.actions[i].id : i \in DOMAIN cfg.actions}

\* the ids the registry holds
RegistryIds(reg) == {id \in ActionIds : reg.actions[id] # None}

\* the actions configuration in force: the one the last successful apply
\* made current (routes.py line 97), and until the first apply the one
\* startup_event loaded and built the registry from (main.py lines 69, 87-90)
ActiveActionsConfig ==
    IF "current_actions_config" \in app_attrs THEN current_actions_config
    ELSE actions_config

\* C17: once the application runs, after startup and after any stage, apply
\* and discard requests, every action id the active registry
\* (app.state.action_registry) holds is the id of a definition of the
\* actions configuration in force.
C17_RegistryWithinActiveConfig ==
    app_pc = "running" =>
        \A id \in RegistryIds(action_registry) :
            id \in ConfigIds(ActiveActionsConfig)

\* an apply has replaced the startup configuration, which had a definition
\* that does not resolve, by one that lacks an id the startup registry
\* held: the registry holds ids of the new configuration only
C17_Witness ==
    /\ app_pc = "running"
    /\ "current_actions_config" \in app_attrs
    /\ RegistryIds(action_registry) # {}
    /\ ~AllResolve(actions_config)
    /\ \E id \in RegistryIds(load_actions(EmptyRegistry, actions_config)) :
           id \notin ConfigIds(current_actions_config)

\* ------------------------------------------------------------------------
\* Properties of the handshake
\* ------------------------------------------------------------------------
\* C18: every channel on the active list has completed its accept, and so
\* has every channel a broadcast sends to; a channel whose accept is
\* pending or has failed is on neither unless an earlier accept of it
\* succeeded.
C18_ActiveOnlyAfterAccept ==
    /\ \A i \in DOMAIN active_connections : active_connections[i] \in accepted
    /\ \A b \in Broadcasts :
           \A i \in DOMAIN tasks[b] : tasks[b][i] \in accepted

\* a broadcast is sending to an accepted channel while the accept of one
\* channel is pending and that channel has never been accepted
C18_Witness ==
    /\ \E c \in accepting : c \notin accepted /\ ~Contains(active_connections, c)
    /\ \E b \in Broadcasts : pc[b] = "sending" /\ tasks[b] # <<>>

\* ------------------------------------------------------------------------
\* Properties of button content updates
\* ------------------------------------------------------------------------
\* a broadcast is started for call b in this step
BroadcastBegins(b) ==
    /\ pc[b] \in {"idle", "done"}
    /\ <<pc[b], tasks[b], results[b], message[b], update_data[b]>>
         # <<pc'[b], tasks'[b], results'[b], message'[b], update_data'[b]>>

\* C19: a broadcast_button_update(p) call sends to the channels
\* broadcast_json sends to (the active list at the call), and the message
\* given to every send has type "button_content_update" and payload p.
C19_WrapperTagsAndDelegates ==
    [][\A b \in Broadcasts :
          /\ BroadcastBegins(b) => tasks'[b] = active_connections
          /\ pc'[b] # "idle" =>
                /\ message'[b].type = "button_content_update"
                /\ message'[b].payload = update_data'[b]]_vars

\* a button update with a text has been delivered to one channel while
\* the send to another failed
C19_Witness ==
    \E b \in Broadcasts :
        /\ pc[b] = "done"
        /\ "text" \in DOMAIN update_data[b]
        /\ message[b].payload = update_data[b]
        /\ \E c \in Channels : Delivered(b, c) = 1
        /\ \E i \in DOMAIN results[b] : results[b][i] = "exc"

\* C20: the payload broadcast for an update_content request holds every
\* content field the request supplied (text, icon class, style class,
\* sparkline data), with the supplied value, and no content field the
\* request did not supply.
C20_SuppliedFieldsBroadcast ==
    \A b \in Broadcasts :
        pc[b] # "idle" =>
            LET req == push_request[b]
                payload == message[b].payload IN
            \A f \in ContentFields :
                IF req[f] # Absent
                THEN f \in DOMAIN payload /\ payload[f] = req[f]
                ELSE f \notin DOMAIN payload

\* ------------------------------------------------------------------------
\* Properties of the UIConfig lookups
\* ------------------------------------------------------------------------
\* the positions of the pages with the id, and of the buttons with the id
PageHits(pages, id) == {i \in DOMAIN pages : pages[i].id = id}
ButtonHits(pages, id) ==
    {ij \in (DOMAIN pages) \X (1..MaxButtons) :
        /\ ij[2] \in DOMAIN pages[ij[1]].buttons
        /\ pages[ij[1]].buttons[ij[2]].id = id}

\* ij comes no later than kl, pages first and then buttons within a page
ScanOrder(ij, kl) == ij[1] < kl[1] \/ (ij[1] = kl[1] /\ ij[2] <= kl[2])

\* C23: find_page returns the first page in list order with the id, and
\* find_button_and_page the first button with the id, scanning the pages in
\* order and each page's buttons in order, together with its page; both
\* return None when no id matches (duplicate ids: the first match wins).
C23_FirstMatchWins ==
    /\ find_ret.op = "find_page" =>
           LET hits == PageHits(board, find_ret.id) IN
           IF hits = {} THEN find_ret.value = NotFound
           ELSE \E i \in hits :
                    /\ \A k \in hits : i <= k
                    /\ find_ret.value = [found |-> TRUE, page |-> board[i]]
    /\ find_ret.op = "find_button_and_page" =>
           LET hits == ButtonHits(board, find_ret.id) IN
           IF hits = {} THEN find_ret.value = NotFound
           ELSE \E ij \in hits :
                    /\ \A kl \in hits : ScanOrder(ij, kl)
                    /\ find_ret.value = [found |-> TRUE, page |-> board[ij[1]],
                                         button |-> board[ij[1]].buttons[ij[2]]]

\* a button lookup has returned the first of two different buttons with
\* the id on one page, on a configuration where a later page holds the id
\* as well and the two pages have one id
C23_Witness ==
    /\ find_ret.op = "find_button_and_page"
    /\ find_ret.value.found
    /\ \E ij, kl, mn \in ButtonHits(board, find_ret.id) :
           /\ ij[1] = kl[1] /\ ij[2] < kl[2] /\ kl[1] < mn[1]
           /\ board[ij[1]].buttons[ij[2]] # board[kl[1]].buttons[kl[2]]
           /\ find_ret.value.button = board[ij[1]].buttons[ij[2]]
           /\ board[ij[1]].id = board[mn[1]].id

\* a page lookup has returned the first of two different pages with the id
C23_PageWitness ==
    /\ find_ret.op = "find_page"
    /\ find_ret.value.found
    /\ \E i, k \in PageHits(board, find_ret.id) :
           i < k /\ board[i] # board[k] /\ find_ret.value.page = board[i]

\* ------------------------------------------------------------------------
\* Properties of ConfigLoader
\* ------------------------------------------------------------------------
\* the configuration a valid file at path gives, None for any other file
FromFile(path) ==
    IF files[path] = "valid" THEN [loaded |-> TRUE, from |-> path] ELSE Unloaded

\* C24: with no explicit path, the loader uses the example file for a
\* configuration whenever the user file is not found or is invalid (empty,
\* unparsable, or rejected by model validation), and the user file
\* otherwise.
C24_ExampleWhenUserUnusable ==
    loader.pc = "loaded" =>
        \A k \in ConfigKinds :
            loader.given[k] = NoPath =>
                loader.config[k] =
                    IF files[user_file(k)] = "valid" THEN FromFile(user_file(k))
                    ELSE FromFile(example_file(k))

\* C25: a configuration with an explicit path is read from that path only
\* and stays None when that file is missing or invalid; the other
\* configuration is still tried in the user file first and then in the
\* example file.
C25_ExplicitPathOnly ==
    loader.pc = "loaded" =>
        \A k \in ConfigKinds :
            loader.given[k] # NoPath =>
                /\ loader.tried[k] = <<loader.given[k]>>
                /\ loader.config[k] = FromFile(loader.given[k])
                /\ \A o \in ConfigKinds :
                       loader.given[o] = NoPath =>
                           /\ loader.tried[o] \in {<<user_file(o)>>,
                                                   <<user_file(o), example_file(o)>>}
                           /\ files[user_file(o)] = "valid" =>
                                  loader.config[o] = FromFile(user_file(o))
                           /\ files[user_file(o)] = "missing" =>
                                  loader.config[o] = FromFile(example_file(o))

\* an explicit UI path whose file is missing while the user and example UI
\* files are valid, and the actions configuration taken from the example
\* file because there is no user file
C25_Witness ==
    /\ loader.pc = "loaded"
    /\ loader.given["ui"] = other_file("ui")
    /\ files[other_file("ui")] = "missing"
    /\ files[user_file("ui")] = "valid" /\ files[example_file("ui")] = "valid"
    /\ loader.config["ui"] = Unloaded
    /\ loader.given["actions"] = NoPath
    /\ files[user_file("actions")] = "missing"
    /\ loader.config["actions"] = [loaded |-> TRUE, from |-> example_file("actions")]

\* ------------------------------------------------------------------------
\* Properties of startup and of the configuration handlers
\* ------------------------------------------------------------------------
\* C21: stage_new_configuration stores the configuration as staged and sets
\* the pending flag if and only if every action definition of its actions
\* list resolves to a callable; in every other case it answers 400.
C21_StageAcceptsIffAllResolve ==
    [][\A ui \in UIConfigs, cfg \in AppConfigs :
          Stage(ui, cfg) =>
              IF AllResolve(cfg)
              THEN /\ response' = "200"
                   /\ staged_ui_config' = ui
                   /\ staged_actions_config' = cfg
                   /\ pending_update_available'
              ELSE response' = "400"]_vars

\* C26: once startup_event has completed, get_current_ui_config,
\* get_action_registry and get_live_update_manager each return a value
\* instead of raising 503 or 500.
C26_DependenciesAvailable ==
    app_pc = "running" =>
        /\ get_current_ui_config.status = "returned"
        /\ get_action_registry.status = "returned"
        /\ get_live_update_manager.status = "returned"

\* C27: startup_event raises exactly when the UI configuration or the
\* actions configuration was not loaded; then no registry is published, and
\* otherwise one always is, even when no action resolved.
C27_StartupFailsIffConfigMissing ==
    app_pc # "init" =>
        /\ app_pc = "failed" <=> (ui_config = None \/ ~actions_config.given)
        /\ app_pc = "failed" => "action_registry" \notin app_attrs
        /\ app_pc = "running" => get_action_registry.status = "returned"

\* startup completed with definitions of which none resolved
C27_Witness ==
    /\ app_pc = "running"
    /\ actions_config.actions # <<>>
    /\ RegistryIds(action_registry) = {}
    /\ "action_registry" \in app_attrs

\* a configuration is staged: apply will not refuse it
Staged ==
    /\ {"pending_update_available", "staged_ui_config", "staged_actions_config"}
           \subseteq app_attrs
    /\ pending_update_available
    /\ staged_ui_config # None
    /\ staged_actions_config.given

\* C28: a successful apply makes the staged configurations the active ones,
\* publishes a new registry loaded from exactly the staged actions
\* configuration, empties the staged slots and clears the pending flag, so
\* that an apply that follows without a stage is refused.
C28_ApplyPublishesStaged ==
    [][\A b \in Broadcasts :
          (Apply(b) /\ response' \in {"200", "pending"}) =>
              /\ Staged
              /\ current_ui_config' = staged_ui_config
              /\ current_actions_config' = staged_actions_config
              /\ action_registry' = load_actions(EmptyRegistry, staged_actions_config)
              /\ staged_ui_config' = None
              /\ staged_actions_config' = NoConfig
              /\ ~pending_update_available'
              /\ ~ApplyReadFails' /\ NothingStaged']_vars

\* a second configuration has been applied over a first one whose registry
\* held an action the second does not define
C28_Witness ==
    /\ response = "200"
    /\ ~pending_update_available
    /\ current_ui_config = "ui2"
    /\ current_actions_config.given
    /\ ConfigIds(current_actions_config) = {"a"}
    /\ RegistryIds(action_registry) = {"a"}
    /\ ConfigIds(actions_config) = {"b"}

\* C29: an apply with no configuration staged (never staged, already
\* applied, or discarded) answers 404, starts no broadcast and leaves the
\* active configurations, the registry and the staged state as they were.
C29_ApplyWithoutStagedIs404 ==
    [][\A b \in Broadcasts :
          (Apply(b) /\ ~Staged) =>
              /\ response' = "404"
              /\ UNCHANGED <<current_ui_config, current_actions_config,
                             action_registry, staged_ui_config,
                             staged_actions_config, pending_update_available>>
              /\ UNCHANGED <<pc, tasks, message>>]_vars

\* the active configuration: what the dependencies hand to a request
ActiveState ==
    <<current_ui_config, current_actions_config, action_registry,
      get_current_ui_config, get_action_registry>>

\* a step of stage_new_configuration: the one handler that answers 400,
\* and the one that answers 200 with the pending flag set (apply and
\* discard clear the flag when they answer 200)
StageAnswers ==
    /\ app_pc = "running"
    /\ \/ response' = "400"
       \/ response' = "200" /\ pending_update_available' = TRUE /\ UNCHANGED pc

\* C31: stage_new_configuration, accepted or rejected, leaves the active UI
\* configuration, the active actions configuration and the active registry
\* as they are: requests are served from the applied configuration until
\* an apply succeeds.
C31_StageLeavesActive ==
    [][StageAnswers => ActiveState' = ActiveState]_vars

\* a configuration with other actions is staged while the applied one is
\* active, its registry in use
C31_Witness ==
    /\ response = "200"
    /\ Staged
    /\ get_current_ui_config.status = "returned"
    /\ staged_ui_config # current_ui_config
    /\ ConfigIds(staged_actions_config) = {"b"}
    /\ ConfigIds(current_actions_config) = {"a"}
    /\ RegistryIds(action_registry) = {"a"}

\* C32: a rejected stage request changes nothing: the staged slots, the
\* pending flag, the active configurations and the registry stay as they
\* were, so that an apply that follows publishes the configuration staged
\* earlier.
C32_RejectedStageChangesNothing ==
    [][(StageAnswers /\ response' = "400") =>
          /\ StagedState' = StagedState
          /\ ActiveState' = ActiveState
          /\ app_attrs' = app_attrs
          /\ Staged' = Staged]_vars

\* a stage was rejected while an earlier configuration is staged
C32_Witness ==
    /\ response = "400"
    /\ Staged
    /\ ConfigIds(staged_actions_config) = {"b"}

\* C33: discard_staged_configuration empties both staged slots and clears
\* the flag, leaves the active configurations and the registry as they
\* are, answers 200 also when nothing is staged, and a second discard
\* changes nothing more.
C33_DiscardClearsStaged ==
    [][Discard =>
          /\ staged_ui_config' = None
          /\ staged_actions_config' = NoConfig
          /\ ~pending_update_available'
          /\ ~Staged'
          /\ response' = "200"
          /\ ActiveState' = ActiveState
          /\ discarded(StagedState') = StagedState'
          /\ {"staged_ui_config", "staged_actions_config", "pending_update_available"}
                 \subseteq app_attrs']_vars

\* a discard answered 200 with nothing staged and an applied configuration
\* active
C33_Witness ==
    /\ response = "200"
    /\ {"staged_ui_config", "staged_actions_config", "pending_update_available"}
           \subseteq app_attrs
    /\ ~pending_update_available
    /\ staged_ui_config = None
    /\ "current_ui_config" \notin app_attrs
    /\ app_pc = "running"

\* C34: the pending flag is true exactly when both staged slots hold a
\* configuration, and the two slots are both filled or both empty.
C34_FlagIffBothStaged ==
    /\ get_pending_update_flag <=> (staged_ui_config # None /\ staged_actions_config.given)
    /\ pending_update_available <=> (staged_ui_config # None /\ staged_actions_config.given)
    /\ (staged_ui_config # None) <=> staged_actions_config.given

\* a configuration is staged after an earlier one was applied and another
\* discarded
C34_Witness ==
    /\ Staged
    /\ get_pending_update_flag
    /\ get_current_ui_config.status = "returned"
    /\ response = "200"

\* a navigation panel request arrives in this step (only a client that
\* has received navigation_update makes one)
PanelRequested == ~PanelInFlight /\ nav_served' # nav_served

\* C30: the navigation_update of an apply reaches a channel only after the
\* new UI configuration and the new registry were published: a navigation
\* panel request that a client makes when it has received it reads the
\* configuration that apply made current, with the registry in use the one
\* loaded from its actions configuration, and the panel it is answered
\* with is rendered from the configuration it read.
C30_NavigationAfterPublish ==
    [][/\ PanelRequested =>
              \A b \in Broadcasts :
                  (\E c \in NavChannels : Received(b, c)) =>
                      /\ nav_served' = [status |-> "ui_config", ui_config |-> applied[b].ui]
                      /\ action_registry = load_actions(EmptyRegistry, applied[b].actions)
       /\ (nav_served.status = "flag" /\ nav_served'.status = "returned") =>
              nav_served'.value = nav_served.ui_config]_vars

\* a client was served the applied configuration, another one than the
\* application started with, after it received the navigation_update of
\* that apply and while the broadcast still sends to others
C30_Witness ==
    /\ nav_served.status = "returned"
    /\ nav_served.value = "ui2"
    /\ ui_config = "ui1"
    /\ \E b \in Broadcasts :
           /\ applied[b].ui = "ui2"
           /\ \E c \in NavChannels : Received(b, c)
           /\ pc[b] = "sending"

\* handle_button_action call e answers in this step a press of a button
\* of the configuration whose action_id is not in the registry
UnloadedPress(e) ==
    /\ exec_pc[e] # "awaiting"
    /\ press_ret'[e] # press_ret[e]
    /\ press_ret'[e].button # NotFound
    /\ find_button_and_page(board, press_ret'[e].button.id).found
    /\ get_action(actions, press_ret'[e].button.action_id) = None

\* C22: pressing a button whose action_id is not a loaded action makes
\* handle_button_action return a response with the error toast carrying
\* the message of the not-found result of execute_action; nothing is
\* raised and no action callable is invoked. The UI configuration with
\* that button and the registry were loaded without an error.
C22_UnloadedActionFailsGracefully ==
    [][\A e \in Execs :
          UnloadedPress(e) =>
              /\ press_ret'[e].status = "returned"
              /\ press_ret'[e].code = "200"
              /\ press_ret'[e].toast_class = "toast show error"
              /\ press_ret'[e].message =
                     not_found_result(press_ret'[e].button.action_id).message
              /\ exec_ret'[e] = not_found_result(press_ret'[e].button.action_id)
              /\ exec_pc'[e] = "returned"
              /\ invoked'[e] = 0
              /\ action_out'[e] = NoOutcome
              /\ ~load_raised]_vars

\* a press answered with the not-found toast while the registry holds the
\* other action
C22_Witness ==
    \E e \in Execs :
        /\ press_ret[e].status = "returned"
        /\ press_ret[e].button # NotFound
        /\ actions[press_ret[e].button.action_id] = None
        /\ \E id \in ActionIds : actions[id] # None
        /\ press_ret[e].toast_class = "toast show error"
        /\ exec_ret[e] = not_found_result(press_ret[e].button.action_id)
        /\ invoked[e] = 0

\* the errors an apply request ends in
ApplyErrors == {"404", "AttributeError", "IndexError"}

\* the broadcast_json call b of an apply returns or raises, and the apply
\* request ends with it
ApplyEnds(b) ==
    message[b].type = "navigation_update" /\ pc[b] = "sending" /\ pc'[b] = "done"

\* C39: apply_staged_configuration is all-or-nothing: a request that ends
\* in an error has left the active configurations, the registry and the
\* staged state as they were, and a request that swapped the configuration
\* ends in success.
C39_ApplyAllOrNothing ==
    [][/\ \A b \in Broadcasts : ApplyEnds(b) => response' = "200"
       /\ (response' \in ApplyErrors /\ response' # response) =>
              (ActiveState' = ActiveState /\ StagedState' = StagedState)]_vars

\* C38: the UI configuration and the action registry a button request is
\* handled with belong to the same applied configuration, also when an
\* apply runs while the request is being served.
C38_RequestSeesOneConfiguration ==
    \A r \in ButtonRequests :
        button_request[r].at = "handler" =>
            \E u \in NavUpdates :
                /\ button_request[r].ui_config = Returned(u[1])
                /\ button_request[r].action_registry =
                       Returned(load_actions(EmptyRegistry, u[2]))

\* the positions of the list just loaded whose definition has the id and
\* resolves
ResolvingAt(id) ==
    {i \in DOMAIN last_config.actions :
        last_config.actions[i].id = id /\ Resolves(last_config.actions[i])}

LastOf(S) == CHOOSE i \in S : \A j \in S : j <= i

\* C40: after load_actions an id that several definitions of the list
\* carry is bound to the callable of the last of them that resolved, a
\* later definition of the id that fails does not unbind it, and the
\* ActionDefinition stored for an id is the one whose callable is bound.
C40_LastResolvingWins ==
    \A id \in ActionIds :
        /\ ResolvingAt(id) # {} =>
               LET d == last_config.actions[LastOf(ResolvingAt(id))] IN
               /\ actions[id] = d.function
               /\ action_definitions[id] = d
        /\ actions[id] # None =>
               /\ action_definitions[id].id = id
               /\ action_definitions[id].function = actions[id]
               /\ Resolves(action_definitions[id])

\* a second load was of a list in which one id has two resolving
\* definitions with different callables
C40_Witness ==
    /\ loads = 2
    /\ Len(last_config.actions) = 2
    /\ last_config.actions[1].id = last_config.actions[2].id
    /\ ResolvingAt(last_config.actions[1].id) = {1, 2}
    /\ last_config.actions[1].function # last_config.actions[2].function
    /\ actions[last_config.actions[2].id] = last_config.actions[2].function

\* ------------------------------------------------------------------------
\* Properties of the WebSocket endpoint
\* ------------------------------------------------------------------------
\* C35: a channel whose endpoint handler has ended, for whatever reason, is
\* not on the active list, whether a broadcast had pruned it before or
\* not, and it never comes back on it.
C35_EndedNotActive ==
    \A c \in ended : ~Contains(active_connections, c)

\* the handler of a connected channel has ended after a broadcast with a
\* failed send to it returned, and another channel is still active
C35_Witness ==
    \E c \in ended \cap accepted :
        /\ \E b \in Broadcasts : \E i \in DOMAIN tasks[b] :
               pc[b] = "done" /\ tasks[b][i] = c /\ results[b][i] = "exc"
        /\ active_connections # <<>>
        /\ \E d \in ended \cap accepted : d # c

====
